---------------------------- MODULE Spec2Model ----------------------------
(***************************************************************************)
(* Verification model of the exoplanet catalogue frontend:                 *)
(*   - the parameter codec of PlanetsPage (paramsFromSearch,               *)
(*     formFromParams, createSearchParamsFromForm),                        *)
(*   - the request normaliser of the planet hooks (normaliseListParams),   *)
(*   - the query cache the hooks read through (usePlanetList and the       *)
(*     invalidation done by the dashboard mutations).                      *)
(*                                                                         *)
(* JavaScript strings are sequences of one-character strings, so that      *)
(* trim(), Number(...) and Number.prototype.toString are computed and not  *)
(* assumed.  JavaScript numbers are decimal fractions m / 10^e together    *)
(* with NaN and the two infinities.  A JavaScript object is a function     *)
(* whose domain is the set of keys that hold a value other than undefined. *)
(***************************************************************************)
EXTENDS Integers, Sequences, FiniteSets, TLC

VARIABLES
    filter,      \* the PlanetListParams given to formFromParams / normaliseListParams
    form,        \* the PlanetFiltersFormState handed to createSearchParamsFromForm
    search,      \* the URLSearchParams of the address bar
    listParams,  \* the PlanetListParams decoded from the URL (paramsFromSearch)
    normalised,  \* the results of normaliseListParams applied once and twice
    pc,          \* the step the codec pipeline has reached
    route,       \* the page that is mounted: "boot", "dashboard" or "planets"
    prev,        \* the last query of the list observer that had data (keepPreviousData)
    cache,       \* the query cache: cache key |-> cache slot
    net,         \* the network requests that are in flight
    calls,       \* the number of network requests the reads have issued
    mutation,    \* "idle" or "pending": the dashboard's create / delete mutation
    mutations,   \* the number of mutations that have succeeded
    applied,     \* the overrides last given to createSearchParamsFromForm
    total,       \* listQuery.data?.total as PlanetsPage sees it
    view,        \* what PlanetsPage computes for its pagination controls
    env,         \* import.meta.env.VITE_ADMIN_API_KEY
    request,     \* the request handed to fetch
    response,    \* what fetch settles with
    outcome,     \* what the API client call returns or throws
    dashboard,   \* the state of DashboardPage: forms, messages, mutations
    wire,        \* the requests the dashboard has sent, in order
    store,       \* the cache of the read hooks: cache key |-> the request made
    served       \* the last read of a hook and what answered it

codecVars == <<filter, form, search, listParams, normalised, pc>>

cacheVars == <<route, prev, cache, net, calls, mutation, mutations>>

pageVars == <<applied, total, view>>

httpVars == <<env, request, response, outcome>>

dashVars == <<dashboard, wire>>

hookVars == <<store, served>>

vars == <<codecVars, cacheVars, pageVars, httpVars, dashVars, hookVars>>

(***************************************************************************)
(* Bounds of the model.                                                    *)
(***************************************************************************)
MaxInt == 12        \* numbers have a decimal mantissa in -MaxInt..MaxInt
MaxDec == 1         \* and at most MaxDec decimal places
MaxStrLen == 2      \* free text is every string of at most MaxStrLen characters

(***************************************************************************)
(* Strings.                                                                *)
(***************************************************************************)
Digits == <<"0", "1", "2", "3", "4", "5", "6", "7", "8", "9">>

IsDigit(c) == \E i \in 1..10 : Digits[i] = c

DigitVal(c) == (CHOOSE i \in 1..10 : Digits[i] = c) - 1

IsSpace(c) == c = " "

\* The characters free text is typed from: digits, sign, decimal point,
\* white space and a letter.
InputChars == {"0", "2", "5", "-", ".", " ", "K"}

RECURSIVE SeqsUpTo(_)
SeqsUpTo(n) ==
    IF n = 0 THEN {<<>>}
    ELSE LET shorter == SeqsUpTo(n - 1)
         IN  shorter \cup {Append(s, c) : s \in shorter, c \in InputChars}

InfinityLit == <<"I", "n", "f", "i", "n", "i", "t", "y">>
NegInfinityLit == <<"-">> \o InfinityLit
NaNLit == <<"N", "a", "N">>

RECURSIVE TrimStart(_)
TrimStart(s) ==
    IF s # <<>> /\ IsSpace(Head(s)) THEN TrimStart(Tail(s)) ELSE s

RECURSIVE TrimEnd(_)
TrimEnd(s) ==
    IF s # <<>> /\ IsSpace(s[Len(s)]) THEN TrimEnd(SubSeq(s, 1, Len(s) - 1)) ELSE s

\* String.prototype.trim
Trim(s) == TrimEnd(TrimStart(s))

(***************************************************************************)
(* Numbers.                                                                *)
(***************************************************************************)
RECURSIVE Pow10(_)
Pow10(e) == IF e = 0 THEN 1 ELSE 10 * Pow10(e - 1)

NaN == [k |-> "nan", m |-> 0, e |-> 0]
PosInf == [k |-> "inf", m |-> 0, e |-> 0]
NegInf == [k |-> "ninf", m |-> 0, e |-> 0]

\* The finite number m / 10^e, in lowest terms of the power of ten.
RECURSIVE Fin(_, _)
Fin(m, e) ==
    IF e > 0 /\ m % 10 = 0 THEN Fin(m \div 10, e - 1)
    ELSE [k |-> "fin", m |-> m, e |-> e]

\* Number.isFinite
IsFinite(n) == n.k = "fin"

IsInteger(n) == n.k = "fin" /\ n.e = 0

Abs(i) == IF i < 0 THEN -i ELSE i

\* n < 0, n > 0 and the comparison of two finite numbers
Scaled(n, e) == n.m * Pow10(e - n.e)
MaxE(a, b) == IF a.e > b.e THEN a.e ELSE b.e
NumLess(a, b) == Scaled(a, MaxE(a, b)) < Scaled(b, MaxE(a, b))

\* Math.floor of a finite number
Floor(n) == Fin(n.m \div Pow10(n.e), 0)

\* Math.max of two finite numbers
Max(a, b) == IF NumLess(a, b) THEN b ELSE a

RECURSIVE NatToDigits(_)
NatToDigits(a) ==
    IF a < 10 THEN <<Digits[a + 1]>>
    ELSE Append(NatToDigits(a \div 10), Digits[(a % 10) + 1])

RECURSIVE PadLeft(_, _)
PadLeft(s, n) == IF Len(s) >= n THEN s ELSE PadLeft(<<"0">> \o s, n)

\* toString replaced by a rendering of the integer part only
NumberToString_IntegerPart(n) ==
    CASE n.k = "nan" -> NaNLit
      [] n.k = "inf" -> InfinityLit
      [] n.k = "ninf" -> NegInfinityLit
      [] OTHER ->
            (IF n.m < 0 THEN <<"-">> ELSE <<>>) \o NatToDigits(Abs(n.m) \div Pow10(n.e))

\* Number.prototype.toString (radix 10), for the magnitudes of the model
\* (no exponent notation below 1e21 and above 1e-7).
NumberToString(n) ==
    CASE n.k = "nan" -> NaNLit
      [] n.k = "inf" -> InfinityLit
      [] n.k = "ninf" -> NegInfinityLit
      [] OTHER ->
            LET a == Abs(n.m)
                sign == IF n.m < 0 THEN <<"-">> ELSE <<>>
                int == NatToDigits(a \div Pow10(n.e))
                frac == IF n.e = 0 THEN <<>>
                        ELSE <<".">> \o PadLeft(NatToDigits(a % Pow10(n.e)), n.e)
            IN  sign \o int \o frac

RECURSIVE DigitsToNat(_)
DigitsToNat(s) ==
    IF s = <<>> THEN 0
    ELSE 10 * DigitsToNat(SubSeq(s, 1, Len(s) - 1)) + DigitVal(s[Len(s)])

\* StrDecimalLiteral without exponent part: digits with at most one decimal
\* point and at least one digit.
IsUnsignedDecimal(b) ==
    /\ \A i \in 1..Len(b) : IsDigit(b[i]) \/ b[i] = "."
    /\ Cardinality({i \in 1..Len(b) : b[i] = "."}) <= 1
    /\ \E i \in 1..Len(b) : IsDigit(b[i])

UnsignedDecimal(b) ==
    LET dots == {i \in 1..Len(b) : b[i] = "."}
        p == IF dots = {} THEN Len(b) + 1 ELSE CHOOSE i \in dots : TRUE
        int == SubSeq(b, 1, p - 1)
        frac == SubSeq(b, p + 1, Len(b))
    IN  [m |-> DigitsToNat(int \o frac), e |-> Len(frac)]

\* Number(value) of a string: white space is stripped, the empty string is 0,
\* a decimal literal is its value, everything else is NaN.
StringToNumber(s) ==
    LET t == Trim(s)
        neg == t # <<>> /\ Head(t) = "-"
        pos == t # <<>> /\ Head(t) = "+"
        body == IF neg \/ pos THEN Tail(t) ELSE t
    IN  CASE t = <<>> -> Fin(0, 0)
          [] body = InfinityLit -> IF neg THEN NegInf ELSE PosInf
          [] IsUnsignedDecimal(body) ->
                LET d == UnsignedDecimal(body)
                IN  Fin(IF neg THEN -d.m ELSE d.m, d.e)
          [] OTHER -> NaN


(***************************************************************************)
(* Optional values: <<>> is null / undefined, <<v>> is the value v.        *)
(***************************************************************************)
None == <<>>
Some(v) == <<v>>

\* The object that holds exactly the fields of opt that are not undefined.
Obj(opt) == [k \in {j \in DOMAIN opt : opt[j] # None} |-> opt[k][1]]

\* obj.key of an object of optional fields
Field(obj, key) == IF key \in DOMAIN obj THEN Some(obj[key]) ELSE None

(***************************************************************************)
(* The fields of PlanetListParams and of PlanetFiltersFormState.           *)
(***************************************************************************)
StringKeys == {"name", "disc_method"}

RangeKeys ==
    {"min_year", "max_year", "min_orbperd", "max_orbperd", "min_rade", "max_rade",
     "min_masse", "max_masse", "min_st_teff", "max_st_teff", "min_st_rad",
     "max_st_rad", "min_st_mass", "max_st_mass"}

NumericKeys == RangeKeys \cup {"limit", "offset"}

ListParamKeys ==
    StringKeys \cup NumericKeys \cup {"include_deleted", "sort_by", "sort_order"}

FormKeys == StringKeys \cup RangeKeys \cup {"limit", "sort_by", "sort_order"}

SortFields ==
    { <<"i", "d">>,
      <<"n", "a", "m", "e">>,
      <<"d", "i", "s", "c", "_", "y", "e", "a", "r">>,
      <<"d", "i", "s", "c", "_", "m", "e", "t", "h", "o", "d">>,
      <<"o", "r", "b", "p", "e", "r", "d">>,
      <<"r", "a", "d", "e">>,
      <<"m", "a", "s", "s", "e">>,
      <<"s", "t", "_", "t", "e", "f", "f">>,
      <<"s", "t", "_", "r", "a", "d">>,
      <<"s", "t", "_", "m", "a", "s", "s">>,
      <<"c", "r", "e", "a", "t", "e", "d", "_", "a", "t">> }

Asc == <<"a", "s", "c">>
Desc == <<"d", "e", "s", "c">>
SortOrders == {Asc, Desc}

(***************************************************************************)
(* Parameter codec (pages/PlanetsPage.tsx).                                *)
(***************************************************************************)
defaultFormState ==
    [k \in FormKeys |->
        CASE k = "limit" -> <<"2", "5">>
          [] k = "sort_by" -> <<"i", "d">>
          [] k = "sort_order" -> Desc
          [] OTHER -> <<>>]

\* URLSearchParams.get: the value of the key, or null
Get(sp, key) == IF key \in DOMAIN sp THEN Some(sp[key]) ELSE None

\* parseNumberParam with the test written on the parsed number: 0 is falsy
parseNumberParam_ZeroIsFalsy(value) ==
    IF value = None THEN None
    ELSE LET parsed == StringToNumber(value[1])
         IN  IF IsFinite(parsed) /\ parsed # Fin(0, 0) THEN Some(parsed) ELSE None

parseNumberParam(value) ==
    IF value = None \/ value[1] = <<>> THEN None
    ELSE LET parsed == StringToNumber(value[1])
         IN  IF IsFinite(parsed) THEN Some(parsed) ELSE None

\* parseSortField without the test against the allowed fields
parseSortField_KeepsAny(value) == value

parseSortField(value) ==
    IF value # None /\ value[1] \in SortFields THEN value ELSE None

parseSortOrder(value) ==
    IF value # None /\ (value[1] = Asc \/ value[1] = Desc) THEN value ELSE None

paramsFromSearch(sp) ==
    Obj([k \in ListParamKeys \ {"include_deleted"} |->
            CASE k \in StringKeys -> Get(sp, k)
              [] k \in RangeKeys \cup {"limit"} -> parseNumberParam(Get(sp, k))
              [] k = "offset" ->
                    IF parseNumberParam(Get(sp, k)) = None THEN Some(Fin(0, 0))
                    ELSE parseNumberParam(Get(sp, k))
              [] k = "sort_by" -> parseSortField(Get(sp, k))
              [] k = "sort_order" -> parseSortOrder(Get(sp, k))])

formFromParams(params) ==
    [k \in FormKeys |->
        CASE k \in StringKeys -> IF k \in DOMAIN params THEN params[k] ELSE <<>>
          [] k \in RangeKeys ->
                IF k \in DOMAIN params THEN NumberToString(params[k]) ELSE <<>>
          [] k = "limit" ->
                IF k \in DOMAIN params THEN NumberToString(params[k])
                ELSE NumberToString(StringToNumber(defaultFormState[k]))
          [] OTHER -> IF k \in DOMAIN params THEN params[k] ELSE defaultFormState[k]]

\* overrides: key |-> <<>> (undefined) or <<value>>
NoOverrides == [k \in {} |-> <<>>]

\* createSearchParamsFromForm with the emptiness test on the untrimmed value
createSearchParamsFromForm_UntrimmedTest(f, overrides) ==
    LET entries == StringKeys \cup RangeKeys
        emitted == {k \in entries : Len(f[k]) > 0}
        truthy == {k \in {"limit", "sort_by", "sort_order"} : f[k] # <<>>}
        set == {k \in DOMAIN overrides : overrides[k] # None}
    IN  [k \in emitted \cup truthy \cup set |->
            IF k \in set THEN overrides[k][1]
            ELSE IF k \in emitted THEN Trim(f[k])
            ELSE f[k]]

\* createSearchParamsFromForm with the overrides applied first
createSearchParamsFromForm_OverridesFirst(f, overrides) ==
    LET entries == StringKeys \cup RangeKeys
        emitted == {k \in entries : Len(Trim(f[k])) > 0}
        truthy == {k \in {"limit", "sort_by", "sort_order"} : f[k] # <<>>}
        set == {k \in DOMAIN overrides : overrides[k] # None}
    IN  [k \in emitted \cup truthy \cup set |->
            IF k \in emitted THEN Trim(f[k])
            ELSE IF k \in truthy THEN f[k]
            ELSE overrides[k][1]]

createSearchParamsFromForm(f, overrides) ==
    LET entries == StringKeys \cup RangeKeys
        emitted == {k \in entries : Len(Trim(f[k])) > 0}
        truthy == {k \in {"limit", "sort_by", "sort_order"} : f[k] # <<>>}
        set == {k \in DOMAIN overrides : overrides[k] # None}
    IN  [k \in emitted \cup truthy \cup set |->
            IF k \in set THEN overrides[k][1]
            ELSE IF k \in emitted THEN Trim(f[k])
            ELSE f[k]]

(***************************************************************************)
(* Request normaliser (hooks/usePlanets.ts).                               *)
(***************************************************************************)
\* clampInteger adding the minimum instead of clamping to it
clampInteger_AddsMinimum(value, minimum) == Fin(Floor(value).m + minimum, 0)

clampInteger(value, minimum) == Max(Fin(minimum, 0), Floor(value))

toOptionalNumber(value) ==
    IF value # None /\ IsFinite(value[1]) THEN value ELSE None

\* toOptionalPositiveInt that clamps and does not floor
toOptionalPositiveInt_NoFloor(value, minimum) ==
    IF value = None \/ ~IsFinite(value[1]) THEN None
    ELSE Some(Max(Fin(minimum, 0), value[1]))

toOptionalPositiveInt(value, minimum) ==
    IF value = None \/ ~IsFinite(value[1]) THEN None
    ELSE Some(clampInteger(value[1], minimum))

\* toOptionalString that drops the empty string and trims nothing
toOptionalString_NoTrim(value) ==
    IF value = None THEN None
    ELSE IF value[1] # <<>> THEN value ELSE None

toOptionalString(value) ==
    IF value = None THEN None
    ELSE LET trimmed == Trim(value[1])
         IN  IF trimmed # <<>> THEN Some(trimmed) ELSE None

isSortField(value) == value # None /\ value[1] \in SortFields

isSortOrder(value) == value # None /\ (value[1] = Asc \/ value[1] = Desc)

normaliseListParams(params) ==
    Obj([k \in ListParamKeys |->
            CASE k = "limit" -> toOptionalPositiveInt(Field(params, k), 1)
              [] k = "offset" -> toOptionalPositiveInt(Field(params, k), 0)
              [] k \in StringKeys -> toOptionalString(Field(params, k))
              [] k \in RangeKeys -> toOptionalNumber(Field(params, k))
              [] k = "include_deleted" ->
                    IF k \in DOMAIN params /\ params[k] THEN Some(TRUE) ELSE None
              [] k = "sort_by" ->
                    IF isSortField(Field(params, k)) THEN Field(params, k) ELSE None
              [] k = "sort_order" ->
                    IF isSortOrder(Field(params, k)) THEN Field(params, k) ELSE None])

(***************************************************************************)
(* Inputs: the numbers, strings, filter objects, form states and query     *)
(* strings the functions are applied to.                                   *)
(***************************************************************************)
FiniteVals ==
    {Fin(m, e) : m \in -MaxInt..MaxInt, e \in 0..MaxDec}

NumVals == FiniteVals \cup {NaN, PosInf, NegInf}

StrInputs == SeqsUpTo(MaxStrLen)

BogusSort == <<"I", "D">>

\* what a sort_by / sort_order field may hold at run time
SortInputs == SortFields \cup SortOrders \cup {BogusSort, <<>>, <<" ">>}

\* the values of a URL query key
UrlStrings == StrInputs \cup {InfinityLit, NegInfinityLit, NaNLit} \cup SortInputs

Empty == [k \in {} |-> <<>>]

FieldVals(k) ==
    CASE k \in NumericKeys -> NumVals
      [] k \in StringKeys -> StrInputs
      [] k = "include_deleted" -> BOOLEAN
      [] OTHER -> SortInputs

OneField(k, v) == [j \in {k} |-> v]

FullFilter(n, s, srt, b) ==
    [k \in ListParamKeys |->
        CASE k \in NumericKeys -> n
          [] k \in StringKeys -> s
          [] k = "include_deleted" -> b
          [] k = "sort_by" -> srt[1]
          [] OTHER -> srt[2]]

\* Filter objects: nothing set, one field set to any value of its type, or
\* every field set.
FilterInputs ==
    {Empty}
    \cup UNION {{OneField(k, v) : v \in FieldVals(k)} : k \in ListParamKeys}
    \cup {FullFilter(n, s, srt, TRUE) :
            n \in NumVals, s \in StrInputs,
            srt \in {<<<<"n", "a", "m", "e">>, Asc>>, <<BogusSort, BogusSort>>}}

\* Form states: the default form with one field edited, or every field
\* holding the same text.
FormInputs ==
    {[defaultFormState EXCEPT ![k] = s] : k \in FormKeys, s \in StrInputs}
    \cup {[k \in FormKeys |-> s] : s \in StrInputs}

\* Query strings: no key, one recognised key, or every recognised key.
UrlKeys == ListParamKeys \ {"include_deleted"}

SearchInputs ==
    {Empty}
    \cup {OneField(k, s) : k \in UrlKeys, s \in UrlStrings}
    \cup {[k \in UrlKeys |-> s] : s \in UrlStrings}

\* No page has rendered.
PageBoot ==
    /\ applied = NoOverrides
    /\ total = None
    /\ view = None

\* No request has been made.
HttpBoot ==
    /\ env = None
    /\ request = None
    /\ response = None
    /\ outcome = None

\* The dashboard is not mounted and no hook has read anything.
DashBoot ==
    /\ dashboard = <<>>
    /\ wire = <<>>
    /\ store = <<>>
    /\ served = <<>>

\* Nothing is mounted, nothing is cached and nothing is in flight.
CacheBoot ==
    /\ route = "boot"
    /\ prev = None
    /\ cache = Empty
    /\ net = {}
    /\ calls = 0
    /\ mutation = "idle"
    /\ mutations = 0

(***************************************************************************)
(* The codec pipeline: a filter object is rendered to the form             *)
(* (formFromParams), the form is encoded to a query string                 *)
(* (createSearchParamsFromForm) and the query string is decoded            *)
(* (paramsFromSearch).                                                     *)
(***************************************************************************)
ToForm ==
    /\ pc = "params"
    /\ form' = formFromParams(filter)
    /\ pc' = "form"
    /\ UNCHANGED <<filter, search, listParams, normalised>>
    /\ UNCHANGED <<cacheVars, pageVars, httpVars, dashVars, hookVars>>

Encode ==
    /\ pc = "form"
    /\ search' = createSearchParamsFromForm(form, NoOverrides)
    /\ pc' = "url"
    /\ UNCHANGED <<filter, form, listParams, normalised>>
    /\ UNCHANGED <<cacheVars, pageVars, httpVars, dashVars, hookVars>>

Decode ==
    /\ pc = "url"
    /\ listParams' = paramsFromSearch(search)
    /\ pc' = "decoded"
    /\ UNCHANGED <<filter, form, search, normalised>>
    /\ UNCHANGED <<cacheVars, pageVars, httpVars, dashVars, hookVars>>

\* usePlanetList(params): the request is normaliseListParams(params)
Normalise ==
    /\ pc = "params"
    /\ normalised' = <<normaliseListParams(filter)>>
    /\ pc' = "normalised"
    /\ UNCHANGED <<filter, form, search, listParams>>
    /\ UNCHANGED <<cacheVars, pageVars, httpVars, dashVars, hookVars>>

\* the normalised request handed to normaliseListParams once more
NormaliseAgain ==
    /\ pc = "normalised"
    /\ normalised' = Append(normalised, normaliseListParams(normalised[1]))
    /\ pc' = "renormalised"
    /\ UNCHANGED <<filter, form, search, listParams>>
    /\ UNCHANGED <<cacheVars, pageVars, httpVars, dashVars, hookVars>>

\* Round trip of a filter object through form and query string.
InitCodec ==
    /\ pc = "params"
    /\ filter \in FilterInputs
    /\ form = defaultFormState
    /\ search = Empty
    /\ listParams = Empty
    /\ normalised = <<>>
    /\ CacheBoot
    /\ PageBoot
    /\ HttpBoot
    /\ DashBoot

NextCodec == ToForm \/ Encode \/ Decode

SpecCodec == InitCodec /\ [][NextCodec]_vars

\* Encoding of an edited form.
InitEncode ==
    /\ pc = "form"
    /\ form \in FormInputs
    /\ filter = Empty
    /\ search = Empty
    /\ listParams = Empty
    /\ normalised = <<>>
    /\ CacheBoot
    /\ PageBoot
    /\ HttpBoot
    /\ DashBoot

NextEncode == Encode \/ Decode

SpecEncode == InitEncode /\ [][NextEncode]_vars

\* Decoding of the query string of the address bar, and the form the page
\* derives from it.
Sync ==
    /\ pc = "decoded"
    /\ form' = formFromParams(listParams)
    /\ pc' = "synced"
    /\ UNCHANGED <<filter, search, listParams, normalised>>
    /\ UNCHANGED <<cacheVars, pageVars, httpVars, dashVars, hookVars>>

InitDecode ==
    /\ pc = "url"
    /\ search \in SearchInputs
    /\ filter = Empty
    /\ form = defaultFormState
    /\ listParams = Empty
    /\ normalised = <<>>
    /\ CacheBoot
    /\ PageBoot
    /\ HttpBoot
    /\ DashBoot

NextDecode == Decode \/ Sync

SpecDecode == InitDecode /\ [][NextDecode]_vars

\* Normalisation of a filter object, applied once and twice.
InitNormalise ==
    /\ pc = "params"
    /\ filter \in FilterInputs
    /\ form = defaultFormState
    /\ search = Empty
    /\ listParams = Empty
    /\ normalised = <<>>
    /\ CacheBoot
    /\ PageBoot
    /\ HttpBoot
    /\ DashBoot

NextNormalise == Normalise \/ NormaliseAgain

SpecNormalise == InitNormalise /\ [][NextNormalise]_vars


(***************************************************************************)
(* The query cache the hooks read through (hooks/usePlanets.ts, main.tsx). *)
(* A cache slot is the state of one query of the QueryClient:              *)
(*   data    - <<>> or <<d>>, d the stored response,                       *)
(*   fresh   - the data is younger than STALE_TIME,                        *)
(*   invalid - the slot was invalidated since its data was stored,         *)
(*   req     - the id of the request the slot is waiting for, 0 for none,  *)
(*   fails   - the failures of the fetch in progress,                      *)
(*   error   - the last fetch ended in an error.                           *)
(* A response repeats the request it answers: the payload sent to the      *)
(* API, the PlanetListParams the page held when the request was sent       *)
(* (raw), the request id, and the number of mutations that had succeeded   *)
(* when the request was sent (epoch).                                      *)
(***************************************************************************)
MaxCalls == 3       \* network requests issued by reads
MaxMutations == 1   \* mutations that succeed

retry == 1          \* defaultOptions.queries.retry

NewSlot ==
    [data |-> None, fresh |-> FALSE, invalid |-> FALSE,
     req |-> 0, fails |-> 0, error |-> FALSE]

\* usePlanetList with a key made of the parameters as the page gave them
usePlanetList_queryKey_RawParams(params) == <<"planets", "list", params>>

\* usePlanetList with one key for every parameter object
usePlanetList_queryKey_NoParams(params) == <<"planets", "list">>

\* queryKey: ['planets', 'list', normalised]
usePlanetList_queryKey(params) ==
    <<"planets", "list", normaliseListParams(params)>>

\* queryFn: () => listPlanets(normalised)
usePlanetList_queryFn(params) == normaliseListParams(params)

usePlanetCount_queryKey == <<"planets", "count">>

usePlanetStats_queryKey == <<"planets", "stats">>

DashboardKeys == {usePlanetCount_queryKey, usePlanetStats_queryKey}

IsListKey(k) == k[2] = "list"

\* the key the mounted PlanetsPage reads
ListKey == usePlanetList_queryKey(listParams)

\* the keys that have an observer
ActiveKeys ==
    CASE route = "planets" -> {ListKey}
      [] route = "dashboard" -> DashboardKeys
      [] OTHER -> {}

SlotOf(c, k) == IF k \in DOMAIN c THEN c[k] ELSE NewSlot

IsStale(slot) == slot.data = None \/ slot.invalid \/ ~slot.fresh

\* an observer that subscribes fetches unless a fetch is in progress or
\* the data is fresh
ShouldFetch(c, k) == SlotOf(c, k).req = 0 /\ IsStale(SlotOf(c, k))

Awaited(r) == r.key \in DOMAIN cache /\ cache[r.key].req = r.id

\* Send one request for every key of S.  c is the cache, pay and raw give
\* the payload and the page's parameters for a key, ep is the epoch.
Dispatch(c, S, pay, raw, ep) ==
    LET rank == CHOOSE f \in [S -> 1..Cardinality(S)] :
                    \A a, b \in S : a # b => f[a] # f[b]
    IN  [cache |-> [k \in DOMAIN c \cup S |->
                        IF k \in S
                        THEN [SlotOf(c, k) EXCEPT
                                !.req = calls + rank[k],
                                !.fails = 0,
                                !.error = IF SlotOf(c, k).data = None
                                          THEN FALSE ELSE @]
                        ELSE c[k]],
         net |-> net \cup {[id |-> calls + rank[k], key |-> k,
                            payload |-> pay[k], raw |-> raw[k],
                            epoch |-> ep] : k \in S},
         calls |-> calls + Cardinality(S)]

\* Observers subscribe to the keys of K.
Read(c, K, pay, raw) ==
    LET c1 == [k \in DOMAIN c \cup K |-> SlotOf(c, k)]
    IN  Dispatch(c1, {k \in K : ShouldFetch(c, k)}, pay, raw, mutations)

\* usePlanetList without placeholderData: keepPreviousData
Render_NoPlaceholderData ==
    LET slot == SlotOf(cache, ListKey)
    IN  IF slot.data # None
        THEN [data |-> slot.data, isPlaceholderData |-> FALSE,
              isLoading |-> FALSE, isError |-> slot.error]
        ELSE [data |-> None, isPlaceholderData |-> FALSE,
              isLoading |-> slot.req # 0, isError |-> slot.error]

\* what usePlanetList returns to PlanetsPage: the data of the slot of the
\* current key, or else the data of the previous key as a placeholder
Render ==
    LET slot == SlotOf(cache, ListKey)
    IN  IF slot.data # None
        THEN [data |-> slot.data, isPlaceholderData |-> FALSE,
              isLoading |-> FALSE, isError |-> slot.error]
        ELSE IF prev # None /\ prev[1] \in DOMAIN cache
                /\ cache[prev[1]].data # None /\ ~slot.error
        THEN [data |-> cache[prev[1]].data, isPlaceholderData |-> TRUE,
              isLoading |-> FALSE, isError |-> FALSE]
        ELSE [data |-> None, isPlaceholderData |-> FALSE,
              isLoading |-> slot.req # 0, isError |-> slot.error]

\* the query strings the page is opened with
CacheUrls ==
    {Empty,
     OneField("name", <<"K">>),
     OneField("name", <<" ", "K", " ">>),
     OneField("offset", <<"2">>)}

ListPayload(params) ==
    [k \in {usePlanetList_queryKey(params)} |-> usePlanetList_queryFn(params)]

ListRaw(params) == [k \in {usePlanetList_queryKey(params)} |-> params]

DashboardPayload == [k \in DashboardKeys |-> Empty]

\* the address bar holds s: PlanetsPage decodes it and seeds the form
Address(s) ==
    /\ search' = s
    /\ listParams' = paramsFromSearch(s)
    /\ form' = formFromParams(paramsFromSearch(s))
    /\ UNCHANGED <<filter, normalised, pc, pageVars, httpVars, dashVars, hookVars>>

Issue(r) ==
    /\ r.calls <= MaxCalls
    /\ cache' = r.cache
    /\ net' = r.net
    /\ calls' = r.calls

\* The dashboard is mounted: usePlanetCount and usePlanetStats subscribe.
OpenDashboard ==
    /\ route \in {"boot", "planets"}
    /\ route' = "dashboard"
    /\ prev' = None
    /\ Issue(Read(cache, DashboardKeys, DashboardPayload, DashboardPayload))
    /\ UNCHANGED <<mutation, mutations, codecVars, pageVars, httpVars, dashVars, hookVars>>

\* PlanetsPage is mounted with the query string s: usePlanetList subscribes.
OpenPlanets(s) ==
    LET params == paramsFromSearch(s)
        key == usePlanetList_queryKey(params)
    IN  /\ route \in {"boot", "dashboard"}
        /\ route' = "planets"
        /\ Address(s)
        /\ prev' = IF SlotOf(cache, key).data # None THEN Some(key) ELSE None
        /\ Issue(Read(cache, {key}, ListPayload(params), ListRaw(params)))
        /\ UNCHANGED <<mutation, mutations>>

\* setSearchParams on the mounted PlanetsPage (applyFilters, resetFilters,
\* goToOffset): the observer moves to the new key, and reads nothing when
\* the key is the one it already has.
Visit(s) ==
    LET params == paramsFromSearch(s)
        key == usePlanetList_queryKey(params)
    IN  /\ route = "planets"
        /\ s # search
        /\ Address(s)
        /\ IF key = ListKey
           THEN UNCHANGED <<prev, cache, net, calls>>
           ELSE /\ prev' = IF SlotOf(cache, key).data # None
                           THEN Some(key) ELSE prev
                /\ Issue(Read(cache, {key}, ListPayload(params),
                              ListRaw(params)))
        /\ UNCHANGED <<route, mutation, mutations>>

\* The request r ends, with a response (ok) or with an error.  A request
\* the slot no longer waits for is dropped.  A failed request is sent
\* again, retry times, while the slot has an observer.
Respond(r, ok) ==
    LET k == r.key
        slot == cache[k]
    IN  /\ r \in net
        /\ CASE ~Awaited(r) ->
                  /\ net' = net \ {r}
                  /\ UNCHANGED <<cache, calls, prev>>
             [] Awaited(r) /\ ok ->
                  /\ net' = net \ {r}
                  /\ cache' = [cache EXCEPT ![k] =
                        [data |-> Some([payload |-> r.payload, raw |-> r.raw,
                                        id |-> r.id, epoch |-> r.epoch]),
                         fresh |-> TRUE, invalid |-> FALSE,
                         req |-> 0, fails |-> 0, error |-> FALSE]]
                  /\ prev' = IF route = "planets" /\ k = ListKey
                             THEN Some(k) ELSE prev
                  /\ UNCHANGED calls
             [] Awaited(r) /\ ~ok /\ slot.fails < retry /\ k \in ActiveKeys ->
                  /\ calls < MaxCalls
                  /\ calls' = calls + 1
                  /\ net' = (net \ {r}) \cup
                            {[r EXCEPT !.id = calls + 1, !.epoch = mutations]}
                  /\ cache' = [cache EXCEPT ![k].req = calls + 1,
                                            ![k].fails = @ + 1]
                  /\ UNCHANGED prev
             [] OTHER ->
                  /\ net' = net \ {r}
                  /\ cache' = [cache EXCEPT ![k].req = 0, ![k].fails = @ + 1,
                                            ![k].error = TRUE]
                  /\ UNCHANGED <<calls, prev>>
        /\ UNCHANGED <<route, mutation, mutations, codecVars, pageVars, httpVars, dashVars, hookVars>>

\* STALE_TIME has passed since the data of slot k was stored.
Expire(k) ==
    /\ k \in DOMAIN cache
    /\ cache[k].data # None /\ cache[k].fresh
    /\ cache' = [cache EXCEPT ![k].fresh = FALSE]
    /\ UNCHANGED <<route, prev, net, calls, mutation, mutations, codecVars, pageVars, httpVars, dashVars, hookVars>>

\* GC_TIME has passed since slot k lost its last observer.  The query the
\* list observer keeps for placeholder data is not dropped here.
Evict(k) ==
    /\ k \in DOMAIN cache
    /\ k \notin ActiveKeys
    /\ cache[k].req = 0
    /\ prev # Some(k)
    /\ cache' = [j \in DOMAIN cache \ {k} |-> cache[j]]
    /\ UNCHANGED <<route, prev, net, calls, mutation, mutations, codecVars, pageVars, httpVars, dashVars, hookVars>>

\* The dashboard submits its create form or confirms a delete.
Submit ==
    /\ route = "dashboard"
    /\ mutation = "idle"
    /\ mutations < MaxMutations
    /\ mutation' = "pending"
    /\ UNCHANGED <<route, prev, cache, net, calls, mutations, codecVars, pageVars, httpVars, dashVars, hookVars>>

\* invalidateQueries({ queryKey: ['planets'] }): every slot whose key
\* starts with 'planets' is marked invalid; the slots with an observer are
\* fetched again, where a fetch in progress is replaced when the slot has
\* data and is left running when it has none.
invalidateQueries(c) ==
    LET marked == [k \in DOMAIN c |->
                      IF k[1] = "planets"
                      THEN [c[k] EXCEPT !.invalid = TRUE] ELSE c[k]]
        again == {k \in ActiveKeys \cap DOMAIN c :
                     k[1] = "planets"
                     /\ ~(c[k].req # 0 /\ c[k].data = None)}
        pay == [k \in again |->
                   IF IsListKey(k) THEN usePlanetList_queryFn(listParams)
                   ELSE Empty]
        raw == [k \in again |-> IF IsListKey(k) THEN listParams ELSE Empty]
    IN  Dispatch(marked, again, pay, raw, mutations + 1)

\* The mutation succeeds: onSuccess invalidates the planet queries.
MutationSuccess ==
    /\ mutation = "pending"
    /\ mutation' = "idle"
    /\ mutations' = mutations + 1
    /\ Issue(invalidateQueries(cache))
    /\ UNCHANGED <<route, prev, codecVars, pageVars, httpVars, dashVars, hookVars>>

\* The mutation fails: nothing is invalidated.
MutationError ==
    /\ mutation = "pending"
    /\ mutation' = "idle"
    /\ UNCHANGED <<route, prev, cache, net, calls, mutations, codecVars, pageVars, httpVars, dashVars, hookVars>>

\* The Retry button of the error state of PlanetsPage: listQuery.refetch()
\* sends the request of the current key again.
ClickRetry ==
    /\ route = "planets"
    /\ Render.isError
    /\ Issue(Dispatch(cache, {ListKey}, ListPayload(listParams),
                      ListRaw(listParams), mutations))
    /\ UNCHANGED <<route, prev, mutation, mutations, codecVars, pageVars, httpVars, dashVars, hookVars>>

InitCache ==
    /\ filter = Empty
    /\ form = defaultFormState
    /\ search = Empty
    /\ listParams = Empty
    /\ normalised = <<>>
    /\ pc = "page"
    /\ CacheBoot
    /\ PageBoot
    /\ HttpBoot
    /\ DashBoot

NextCache ==
    \/ OpenDashboard
    \/ \E s \in CacheUrls : OpenPlanets(s)
    \/ \E s \in CacheUrls : Visit(s)
    \/ \E r \in net, ok \in BOOLEAN : Respond(r, ok)
    \/ \E k \in DOMAIN cache : Expire(k)
    \/ \E k \in DOMAIN cache : Evict(k)
    \/ Submit
    \/ MutationSuccess
    \/ MutationError
    \/ ClickRetry

SpecCache == InitCache /\ [][NextCache]_vars
(***************************************************************************)
(* Properties of the codec and of the normaliser.                          *)
(***************************************************************************)
NumericFieldsFinite(f) == \A k \in NumericKeys \cap DOMAIN f : IsFinite(f[k])

EnumFieldsValid(f) ==
    /\ "sort_by" \in DOMAIN f => f["sort_by"] \in SortFields
    /\ "sort_order" \in DOMAIN f => f["sort_order"] \in SortOrders

\* the field k of f, trimmed, and undefined when nothing is left
TrimmedField(f, k) ==
    IF k \in DOMAIN f /\ Trim(f[k]) # <<>> THEN Some(Trim(f[k])) ELSE None

\* the field k of f, or the default d when f has no such field
FieldOr(f, k, d) == IF k \in DOMAIN f THEN Some(f[k]) ELSE Some(d)

\* C1 as stated: for every filter object f with finite numeric fields and
\* valid enum fields, decoding the query that encodes f yields f itself
\* (equal fields, and absent fields stay absent).
C1_RoundTripIsIdentity ==
    (pc = "decoded" /\ NumericFieldsFinite(filter) /\ EnumFieldsValid(filter))
        => listParams = filter

\* C1 as amended: for such an f the round trip returns the fourteen range
\* filters unchanged (absent stays absent), limit / sort_by / sort_order
\* unchanged when f has them and the form defaults 25 / "id" / "desc" when it
\* has not, offset 0 whatever f.offset was, name and disc_method trimmed and
\* absent when nothing is left, and never include_deleted.
C1_RoundTripUpToFormDefaults ==
    (pc = "decoded" /\ NumericFieldsFinite(filter) /\ EnumFieldsValid(filter))
        => /\ \A k \in RangeKeys : Field(listParams, k) = Field(filter, k)
           /\ Field(listParams, "limit") = FieldOr(filter, "limit", Fin(25, 0))
           /\ Field(listParams, "sort_by") = FieldOr(filter, "sort_by", <<"i", "d">>)
           /\ Field(listParams, "sort_order") = FieldOr(filter, "sort_order", Desc)
           /\ Field(listParams, "offset") = Some(Fin(0, 0))
           /\ \A k \in StringKeys : Field(listParams, k) = TrimmedField(filter, k)
           /\ "include_deleted" \notin DOMAIN listParams

\* a round trip of a full filter object with a fractional number, an offset
\* other than 0 and text that needs trimming
C1_Witness ==
    /\ pc = "decoded"
    /\ NumericFieldsFinite(filter) /\ EnumFieldsValid(filter)
    /\ DOMAIN filter = ListParamKeys
    /\ filter["offset"].e > 0 /\ filter["min_year"].m < 0
    /\ filter["name"] # Trim(filter["name"]) /\ Trim(filter["name"]) # <<>>
    /\ listParams["min_year"] = filter["min_year"]
    /\ listParams["name"] = Trim(filter["name"])

\* the FilterState invariant of one field: a finite number, a whole limit of
\* at least 1, a whole offset of at least 0, a sort value of the fixed sets,
\* text that is not empty and has no white space around it
FieldValid(f, k) ==
    CASE k = "limit" -> IsInteger(f[k]) /\ f[k].m >= 1
      [] k = "offset" -> IsInteger(f[k]) /\ f[k].m >= 0
      [] k \in RangeKeys -> IsFinite(f[k])
      [] k = "sort_by" -> f[k] \in SortFields
      [] k = "sort_order" -> f[k] \in SortOrders
      [] k \in StringKeys -> f[k] # <<>> /\ Trim(f[k]) = f[k]
      [] OTHER -> TRUE

\* C2 as stated: every field that is present and valid in f has the same
\* value after formFromParams, createSearchParamsFromForm and
\* paramsFromSearch.
C2_ValidFieldsSurvive ==
    pc = "decoded"
        => \A k \in DOMAIN filter :
              FieldValid(filter, k) => Field(listParams, k) = Some(filter[k])

\* C2 as amended: every present and valid field of f other than offset and
\* include_deleted has the same value after the round trip (text counts as
\* valid when it is not empty and has no white space around it); offset comes
\* back as 0 and include_deleted is dropped.
C2_ValidFieldsSurviveButOffset ==
    pc = "decoded"
        => /\ \A k \in DOMAIN filter \ {"offset", "include_deleted"} :
                FieldValid(filter, k) => Field(listParams, k) = Some(filter[k])
           /\ Field(listParams, "offset") = Some(Fin(0, 0))
           /\ "include_deleted" \notin DOMAIN listParams

\* a valid negative fraction survives next to a sort field that is not valid
C2_Witness ==
    /\ pc = "decoded"
    /\ DOMAIN filter = ListParamKeys
    /\ filter["sort_by"] \notin SortFields
    /\ filter["max_rade"].k = "fin" /\ filter["max_rade"].e > 0
    /\ filter["max_rade"].m < 0
    /\ listParams["max_rade"] = filter["max_rade"]
    /\ filter["name"] # <<>> /\ listParams["name"] = filter["name"]
    /\ "sort_by" \notin DOMAIN listParams

\* C3: normaliseListParams is idempotent: normalising a normalised request
\* yields the same request, field for field.
C3_NormaliseIdempotent ==
    pc = "renormalised" => normalised[2] = normalised[1]

\* a filter object that normalisation changes in limit, offset and name
C3_Witness ==
    /\ pc = "renormalised"
    /\ DOMAIN filter = ListParamKeys
    /\ filter["limit"].k = "fin" /\ filter["limit"].e > 0 /\ filter["limit"].m < 0
    /\ filter["name"] # Trim(filter["name"]) /\ Trim(filter["name"]) # <<>>
    /\ filter["sort_by"] \notin SortFields
    /\ normalised[1]["limit"] = Fin(1, 0)
    /\ normalised[1]["offset"] = Fin(0, 0)
    /\ normalised[1]["name"] = Trim(filter["name"])
    /\ "sort_by" \notin DOMAIN normalised[1]

\* C7 as stated: every decoded FilterState has finite numeric fields, a whole
\* offset of at least 0 and, when present, a whole limit of at least 1.
C7_DecodedFilterStateInvariant ==
    pc = "decoded"
        => /\ \A k \in NumericKeys \cap DOMAIN listParams : IsFinite(listParams[k])
           /\ "offset" \in DOMAIN listParams
           /\ IsInteger(listParams["offset"]) /\ listParams["offset"].m >= 0
           /\ "limit" \in DOMAIN listParams
                => IsInteger(listParams["limit"]) /\ listParams["limit"].m >= 1

\* a query value that spells a finite number (white space around it allowed)
IsNumericLiteral(s) == Trim(s) # <<>> /\ IsFinite(StringToNumber(s))

\* C8 as stated: a numeric key holds the parsed number when its value is a
\* finite numeric literal and is absent otherwise; a missing, empty, blank or
\* non-numeric value never becomes 0.
C8_NumericKeyParsedOrAbsent ==
    pc = "decoded"
        => \A k \in NumericKeys :
              IF k \in DOMAIN search /\ IsNumericLiteral(search[k])
              THEN Field(listParams, k) = Some(StringToNumber(search[k]))
              ELSE k \notin DOMAIN listParams

InFlight(pay) ==
    \E r \in net : Awaited(r) /\ IsListKey(r.key) /\ r.payload = pay

ListRead(s) == OpenPlanets(s) \/ Visit(s)

(* C4: while a list request for a normalised FilterState is in flight, a   *)
(* second read of the same normalised FilterState sends no request of its  *)
(* own; no two requests that slots wait for carry the same list payload;   *)
(* and the response of the shared request is what the page is given, as    *)
(* data of its own parameters.                                             *)
C4_ConcurrentReadsShareOneRequest ==
    /\ [][\A s \in CacheUrls :
            (ListRead(s) /\ InFlight(usePlanetList_queryFn(paramsFromSearch(s))))
                => (calls' = calls /\ net' = net)]_vars
    /\ [](\A r1, r2 \in net :
            (Awaited(r1) /\ Awaited(r2) /\ IsListKey(r1.key)
             /\ IsListKey(r2.key) /\ r1.payload = r2.payload) => r1 = r2)
    /\ [][\A r \in net :
            (Respond(r, TRUE) /\ Awaited(r) /\ route = "planets"
             /\ IsListKey(r.key)
             /\ r.payload = usePlanetList_queryFn(listParams))
                => /\ Render'.data # None
                   /\ Render'.data[1].id = r.id
                   /\ ~Render'.isPlaceholderData]_vars

\* The page was opened (request 1), left for the dashboard (requests 2 and
\* 3) and opened again while request 1 was still in flight: the second
\* read waits for request 1.
C4_Witness ==
    /\ route = "planets"
    /\ calls = 3
    /\ usePlanetCount_queryKey \in DOMAIN cache
    /\ \E r \in net : r.id = 1 /\ r.key = ListKey /\ Awaited(r)

\* the slot of key k holds, or is waiting for, an answer to a request sent
\* after the last successful mutation
AnsweredAfterMutation(c, m, k) ==
    c[k].req # 0 \/ (c[k].data # None /\ c[k].data[1].epoch = m)

(* C5: after a mutation has succeeded, a read of a slot under 'planets'    *)
(* is not served from the cache with data requested before that mutation:  *)
(* the slot the read subscribes to is waiting for a request, or holds the  *)
(* answer to a request sent after the mutation.                            *)
C5_ReadAfterMutationIsRefetched ==
    [][/\ \A s \in CacheUrls :
            (OpenPlanets(s)
             \/ (Visit(s) /\ usePlanetList_queryKey(paramsFromSearch(s)) # ListKey))
                => AnsweredAfterMutation(cache', mutations',
                        usePlanetList_queryKey(paramsFromSearch(s)))
       /\ OpenDashboard
            => \A k \in DashboardKeys :
                    AnsweredAfterMutation(cache', mutations', k)]_vars

(* C6: the rows the page shows as data of its current parameters (not as   *)
(* placeholder) are the response to the request made of its current        *)
(* parameters, whatever responses of superseded requests arrive.           *)
C6_ShownDataAnswersCurrentParams ==
    (route = "planets" /\ Render.data # None /\ ~Render.isPlaceholderData)
        => Render.data[1].payload = usePlanetList_queryFn(listParams)

\* Two requests were sent, both by PlanetsPage; the response to the first,
\* superseded one arrived after the parameters had changed (the observer
\* never saw it: prev is empty) and the page shows none of it.
C6_Witness ==
    /\ route = "planets"
    /\ calls = 2
    /\ prev = None
    /\ cache[ListKey].req = 2
    /\ \E k \in DOMAIN cache :
          IsListKey(k) /\ k # ListKey /\ cache[k].data # None
          /\ cache[k].data[1].id = 1
    /\ Render.data = None

\* p and q differ at most in the white space around their string fields
WhitespaceVariants(p, q) ==
    /\ DOMAIN p = DOMAIN q
    /\ \A k \in DOMAIN p :
          IF k \in StringKeys THEN Trim(p[k]) = Trim(q[k]) ELSE p[k] = q[k]

\* params with white space put before, after and around its string fields
Paddings(params) ==
    {[k \in DOMAIN params |->
        IF k \in StringKeys THEN l \o params[k] \o t ELSE params[k]] :
            l \in {<<>>, <<" ">>}, t \in {<<>>, <<" ">>}}

\* a slot holds fresh data that was fetched for a white-space variant of q
FreshVariant(q) ==
    \E k \in DOMAIN cache :
        /\ IsListKey(k) /\ cache[k].req = 0
        /\ cache[k].data # None /\ cache[k].fresh /\ ~cache[k].invalid
        /\ WhitespaceVariants(cache[k].data[1].raw, q)

(* C10: parameters that differ only in the white space around their        *)
(* string fields have the same cache key; the page reads the slot that     *)
(* was filled for a white-space variant of its parameters; and a read      *)
(* whose variant is fresh in the cache sends no request.                   *)
C10_WhitespaceVariantsShareSlot ==
    /\ [](\A q \in Paddings(listParams) :
            usePlanetList_queryKey(q) = usePlanetList_queryKey(listParams))
    /\ [](route = "planets" =>
            \A k \in DOMAIN cache :
                (IsListKey(k) /\ cache[k].data # None
                 /\ WhitespaceVariants(cache[k].data[1].raw, listParams))
                    => k = ListKey)
    /\ [][\A s \in CacheUrls :
            (ListRead(s) /\ FreshVariant(paramsFromSearch(s)))
                => (calls' = calls /\ net' = net)]_vars

\* The one request made was sent for other parameters than the page holds
\* now, and the page shows its response as fresh data of its own.
C10_Witness ==
    /\ route = "planets"
    /\ calls = 1
    /\ ListKey \in DOMAIN cache
    /\ cache[ListKey].data # None /\ cache[ListKey].fresh
    /\ cache[ListKey].data[1].raw # listParams
    /\ WhitespaceVariants(cache[ListKey].data[1].raw, listParams)
    /\ ~Render.isPlaceholderData

(***************************************************************************)
(* Pagination of PlanetsPage.  The numbers here are the limit and offset   *)
(* decoded from the URL and the total of the list response; the quotient   *)
(* offset / limit is computed exactly, as JavaScript does for the values   *)
(* of PageUrls.                                                            *)
(***************************************************************************)
Add(a, b) ==
    LET e == MaxE(a, b) IN Fin(Scaled(a, e) + Scaled(b, e), e)

Sub(a, b) ==
    LET e == MaxE(a, b) IN Fin(Scaled(a, e) - Scaled(b, e), e)

\* Math.floor(a / b) + 1 of two finite numbers
PageNumber(a, b) ==
    LET n == Scaled(a, MaxE(a, b))
        d == Scaled(b, MaxE(a, b))
    IN  IF d = 0
        THEN (IF n = 0 THEN NaN ELSE IF n > 0 THEN PosInf ELSE NegInf)
        ELSE IF d > 0 THEN Fin((n \div d) + 1, 0)
        ELSE Fin(((-n) \div (-d)) + 1, 0)

\* PlanetsPage with hasNext true on the last page
PlanetsPage_pagination_NextOnLastPage(params, t) ==
    LET limit == IF "limit" \in DOMAIN params THEN params["limit"]
                 ELSE StringToNumber(defaultFormState["limit"])
        offset == IF "offset" \in DOMAIN params THEN params["offset"]
                  ELSE Fin(0, 0)
        tot == IF t = None THEN Fin(0, 0) ELSE t[1]
    IN  [limit |-> limit, offset |-> offset, total |-> tot,
         hasPrevious |-> NumLess(Fin(0, 0), offset),
         nextOffset |-> Add(offset, limit),
         hasNext |-> ~NumLess(tot, Add(offset, limit)),
         page |-> PageNumber(offset, limit)]

\* limit, offset, total, hasPrevious, nextOffset, hasNext of PlanetsPage
\* and the page number it prints
PlanetsPage_pagination(params, t) ==
    LET limit == IF "limit" \in DOMAIN params THEN params["limit"]
                 ELSE StringToNumber(defaultFormState["limit"])
        offset == IF "offset" \in DOMAIN params THEN params["offset"]
                  ELSE Fin(0, 0)
        tot == IF t = None THEN Fin(0, 0) ELSE t[1]
    IN  [limit |-> limit, offset |-> offset, total |-> tot,
         hasPrevious |-> NumLess(Fin(0, 0), offset),
         nextOffset |-> Add(offset, limit),
         hasNext |-> NumLess(Add(offset, limit), tot),
         page |-> PageNumber(offset, limit)]

\* a query string with filters, a sort field and a sort order
FilteredUrl(n, srt) ==
    [k \in {"name", "min_year", "sort_by", "sort_order", "limit", "offset"} |->
        CASE k = "name" -> n
          [] k = "min_year" -> <<"2", "0", "1", "1">>
          [] k = "sort_by" -> srt
          [] k = "sort_order" -> Asc
          [] k = "limit" -> <<"2", "5">>
          [] OTHER -> <<"5", "0">>]

\* the limit and offset values the address bar is given
PageLimits ==
    {<<"2", "5">>, <<"2">>, <<" ">>, <<"K">>, <<"0">>, <<"-", "5">>,
     <<"2", ".", "5">>}

PageOffsets ==
    {<<"0">>, <<"5", "0">>, <<"5">>, <<"K">>, <<" ">>, <<"-", "5">>,
     <<".", "5">>}

PageUrls ==
    {Empty}
    \cup {OneField("limit", l) : l \in PageLimits}
    \cup {OneField("offset", o) : o \in PageOffsets}
    \cup {[k \in {"limit", "offset"} |-> IF k = "limit" THEN l ELSE o] :
            l \in PageLimits, o \in PageOffsets}
    \cup {FilteredUrl(n, srt) : n \in {<<"K">>, <<" ", "K">>, <<" ">>},
                                srt \in SortFields \cup {BogusSort}}

\* listQuery.data?.total: no data, or the total of the list response
Totals == {None} \cup {Some(Fin(n, 0)) : n \in {0, 3, 75, 120}}

\* the fields the user edits and the texts typed into them
EditKeys == {"name", "min_year", "limit"}

EditTexts == {<<>>, <<"K">>, <<" ", "K">>, <<"5">>}

\* PlanetsPage renders: it decodes the address bar, seeds the form and
\* computes its pagination controls.
PlanetsPage ==
    /\ pc \in {"url", "applied", "reset", "paged"}
    /\ listParams' = paramsFromSearch(search)
    /\ form' = formFromParams(paramsFromSearch(search))
    /\ view' = Some(PlanetsPage_pagination(paramsFromSearch(search), total))
    /\ pc' = IF pc = "url" THEN "page" ELSE "settled"
    /\ UNCHANGED <<filter, search, normalised, applied, total>>
    /\ UNCHANGED <<cacheVars, httpVars, dashVars, hookVars>>

\* FiltersBar.handleInput: the user types text into one field of the form
handleInput(key, text) ==
    /\ pc = "page"
    /\ form[key] # text
    /\ form' = [form EXCEPT ![key] = text]
    /\ pc' = "edited"
    /\ UNCHANGED <<filter, search, listParams, normalised, pageVars>>
    /\ UNCHANGED <<cacheVars, httpVars, dashVars, hookVars>>

\* setSearchParams(createSearchParamsFromForm(f, o))
Navigate(f, o, to) ==
    /\ applied' = o
    /\ search' = createSearchParamsFromForm(f, o)
    /\ pc' = to
    /\ UNCHANGED <<filter, listParams, normalised, total, view>>
    /\ UNCHANGED <<cacheVars, httpVars, dashVars, hookVars>>

applyFilters ==
    /\ pc \in {"form", "page", "edited"}
    /\ Navigate(form, OneField("offset", Some(<<"0">>)), "applied")
    /\ UNCHANGED form

resetFilters ==
    /\ pc \in {"form", "page", "edited"}
    /\ form' = defaultFormState
    /\ Navigate(defaultFormState,
                [k \in {"offset", "limit"} |->
                    IF k = "offset" THEN Some(<<"0">>)
                    ELSE Some(defaultFormState["limit"])],
                "reset")

\* goToOffset encoding the form as edited instead of the form of the URL
goToOffset_UsesFormState(newOffset) ==
    /\ Navigate(form,
                [k \in {"offset", "limit"} |->
                    IF k = "offset"
                    THEN Some(NumberToString(Max(newOffset, Fin(0, 0))))
                    ELSE Some(NumberToString(view[1].limit))],
                "paged")
    /\ UNCHANGED form

goToOffset(newOffset) ==
    /\ Navigate(formFromParams(listParams),
                [k \in {"offset", "limit"} |->
                    IF k = "offset"
                    THEN Some(NumberToString(Max(newOffset, Fin(0, 0))))
                    ELSE Some(NumberToString(view[1].limit))],
                "paged")
    /\ UNCHANGED form

\* the Previous button, enabled when hasPrevious
ClickPrevious ==
    /\ pc \in {"page", "edited"}
    /\ view[1].hasPrevious
    /\ goToOffset(Sub(view[1].offset, view[1].limit))

\* the Next button, enabled when hasNext
ClickNext ==
    /\ pc \in {"page", "edited"}
    /\ view[1].hasNext
    /\ goToOffset(view[1].nextOffset)

InitPage ==
    /\ pc = "url"
    /\ search \in PageUrls
    /\ total \in Totals
    /\ filter = Empty
    /\ form = defaultFormState
    /\ listParams = Empty
    /\ normalised = <<>>
    /\ applied = NoOverrides
    /\ view = None
    /\ CacheBoot
    /\ HttpBoot
    /\ DashBoot

NextPage ==
    \/ PlanetsPage
    \/ \E key \in EditKeys, text \in EditTexts : handleInput(key, text)
    \/ applyFilters
    \/ resetFilters
    \/ ClickPrevious
    \/ ClickNext

SpecPage == InitPage /\ [][NextPage]_vars

(***************************************************************************)
(* createSearchParamsFromForm with overrides: any form state encoded with  *)
(* any overrides map, and the two callers that reset the offset.           *)
(***************************************************************************)
OverrideValues == {None, Some(<<"0">>), Some(<<>>), Some(<<" ", "7">>)}

OverrideInputs ==
    {NoOverrides}
    \cup {OneField(k, v) : k \in {"offset", "limit", "name", "page"},
                           v \in OverrideValues}
    \cup {[k \in {"offset", "limit"} |-> v] : v \in OverrideValues}

\* createSearchParamsFromForm(form, o)
EncodeWith(o) ==
    /\ pc = "form"
    /\ Navigate(form, o, "encoded")
    /\ UNCHANGED form

\* the address bar holds an offset other than 0
InitOverrides ==
    /\ pc = "form"
    /\ form \in FormInputs
    /\ search = OneField("offset", <<"5", "0">>)
    /\ filter = Empty
    /\ listParams = Empty
    /\ normalised = <<>>
    /\ PageBoot
    /\ CacheBoot
    /\ HttpBoot
    /\ DashBoot

NextOverrides ==
    \/ \E o \in OverrideInputs : EncodeWith(o)
    \/ applyFilters
    \/ resetFilters

SpecOverrides == InitOverrides /\ [][NextOverrides]_vars


(***************************************************************************)
(* Response validation (api/types.ts, api/client.ts).  A JSON value is a   *)
(* tagged tuple: <<"null">>, <<"number", n>>, <<"string", s>>,             *)
(* <<"array", sequence>>, <<"object", key |-> JSON value>>; the JavaScript *)
(* value undefined is <<"undefined">>.  A schema gives <<"ok", value>> or  *)
(* <<"ZodError">>.                                                         *)
(***************************************************************************)
JNull == <<"null">>

JUndefined == <<"undefined">>

JNum(n) == <<"number", n>>

JStr(s) == <<"string", s>>

JArr(items) == <<"array", items>>

JObj(fields) == <<"object", fields>>

IsNum(v) == v[1] = "number"

IsStr(v) == v[1] = "string"

IsObj(v) == v[1] = "object"

IsArr(v) == v[1] = "array"

Ok(v) == <<"ok", v>>

ZodError == <<"ZodError">>

\* z.number() / z.string() on the key k of an object o
Required(o, k, isType(_)) == k \in DOMAIN o /\ isType(o[k])

\* .optional()
Optional(o, k, isType(_)) == k \in DOMAIN o => isType(o[k])

\* .nullable().optional()
NullableOptional(o, k, isType(_)) ==
    k \in DOMAIN o => (o[k] = JNull \/ isType(o[k]))

PlanetRowSchema_valid(v) ==
    /\ IsObj(v)
    /\ Required(v[2], "id", IsNum)
    /\ Required(v[2], "name", IsStr)
    /\ NullableOptional(v[2], "disc_method", IsStr)
    /\ \A k \in {"disc_year", "orbperd", "rade", "masse", "st_teff",
                 "st_rad", "st_mass"} : NullableOptional(v[2], k, IsNum)
    /\ Optional(v[2], "created_at", IsStr)
    /\ Optional(v[2], "updated_at", IsStr)
    /\ NullableOptional(v[2], "deleted_at", IsStr)

IsSortOrderText(v) == v = JStr("asc") \/ v = JStr("desc")

PlanetListResponseSchema_valid(v) ==
    /\ IsObj(v)
    /\ Required(v[2], "items", IsArr)
    /\ \A i \in 1..Len(v[2]["items"][2]) :
          PlanetRowSchema_valid(v[2]["items"][2][i])
    /\ \A k \in {"total", "limit", "offset"} : Required(v[2], k, IsNum)
    /\ NullableOptional(v[2], "next_offset", IsNum)
    /\ NullableOptional(v[2], "prev_offset", IsNum)
    /\ Optional(v[2], "sort_by", IsStr)
    /\ Optional(v[2], "sort_order", IsSortOrderText)

\* PlanetListResponseSchema keeping the rows that validate
PlanetListResponseSchema_DropsBadRows(v) ==
    IF /\ IsObj(v)
       /\ Required(v[2], "items", IsArr)
       /\ \A k \in {"total", "limit", "offset"} : Required(v[2], k, IsNum)
    THEN Ok(JObj([v[2] EXCEPT !["items"] =
                    JArr(SelectSeq(v[2]["items"][2], PlanetRowSchema_valid))]))
    ELSE ZodError

\* the keys PlanetListResponseSchema names
EnvelopeKeys ==
    {"items", "total", "limit", "offset", "next_offset", "prev_offset",
     "sort_by", "sort_order"}

\* PlanetListResponseSchema without .passthrough(): z.object strips the keys
\* it does not name
PlanetListResponseSchema_Strips(v) ==
    IF PlanetListResponseSchema_valid(v)
    THEN Ok(JObj([k \in DOMAIN v[2] \cap EnvelopeKeys |-> v[2][k]]))
    ELSE ZodError

\* PlanetListResponseSchema.parse: z.object({...}).passthrough()
PlanetListResponseSchema(v) ==
    IF PlanetListResponseSchema_valid(v) THEN Ok(v) ELSE ZodError

\* DeletedPlanetSchema.parse: z.array(z.object({...}).passthrough())
DeletedPlanetSchema(v) ==
    IF /\ IsArr(v)
       /\ \A i \in 1..Len(v[2]) :
             /\ IsObj(v[2][i])
             /\ Required(v[2][i][2], "id", IsNum)
             /\ Required(v[2][i][2], "name", IsStr)
             /\ NullableOptional(v[2][i][2], "disc_year", IsNum)
             /\ NullableOptional(v[2][i][2], "disc_method", IsStr)
             /\ NullableOptional(v[2][i][2], "deleted_at", IsStr)
    THEN Ok(v) ELSE ZodError

\* z.number().nonnegative() on the key k
NonNegative(o, k) == Required(o, k, IsNum) /\ o[k][2] >= 0

\* PlanetCountSchema reading count only
PlanetCountSchema_CountOnly(v) ==
    IF IsObj(v) /\ NonNegative(v[2], "count")
    THEN Ok(JObj(OneField("total", v[2]["count"])))
    ELSE ZodError

\* PlanetCountSchema.parse: z.object({total}).or(z.object({count})
\* .transform(...)); z.object strips the keys it does not name
PlanetCountSchema(v) ==
    IF IsObj(v) /\ NonNegative(v[2], "total")
    THEN Ok(JObj(OneField("total", v[2]["total"])))
    ELSE IF IsObj(v) /\ NonNegative(v[2], "count")
    THEN Ok(JObj(OneField("total", v[2]["count"])))
    ELSE ZodError

(***************************************************************************)
(* The HTTP wrapper (api/http.ts).  fetch settles with                     *)
(* <<"rejected", message>> or <<"response", r>>; the body of a response is *)
(* <<"json", v>>, the JSON text of the value v, or <<"text", s>>, a text   *)
(* that is not JSON.  A call ends in <<"return", value>> or                *)
(* <<"throw", error>>.                                                     *)
(***************************************************************************)
FALLBACK_BASE_URL == "https://exoplanet-api-lg16.onrender.com"

\* VITE_API_BASE_URL is not set
apiBaseUrl == FALLBACK_BASE_URL

\* adminApiKey without the trim
adminApiKey_Untrimmed(configured) ==
    IF configured # None /\ Len(configured[1]) > 0 THEN configured ELSE None

adminApiKey(configured) ==
    IF configured # None /\ Len(Trim(configured[1])) > 0
    THEN Some(Trim(configured[1])) ELSE None

defaultHeaders == OneField("accept", "application/json")

NoInit == [headers |-> Empty]

withAdminAuth(init) ==
    IF adminApiKey(env) = None THEN init
    ELSE [init EXCEPT !.headers =
            [k \in DOMAIN init.headers \cup {"x-api-key"} |->
                IF k = "x-api-key" THEN adminApiKey(env)[1]
                ELSE init.headers[k]]]

resolveUrl(path, query) == <<apiBaseUrl, path, query>>

\* headers: { ...defaultHeaders, ...init.headers }
http_headers(init) ==
    [k \in DOMAIN defaultHeaders \cup DOMAIN init.headers |->
        IF k \in DOMAIN init.headers THEN init.headers[k]
        ELSE defaultHeaders[k]]

\* toQueryString: the entries of the query string
toQueryString(params) ==
    LET kept == {k \in DOMAIN params :
                    CASE k \in StringKeys -> Len(Trim(params[k])) > 0
                      [] k \in NumericKeys -> IsFinite(params[k])
                      [] k = "include_deleted" -> params[k]
                      [] OTHER -> TRUE}
    IN  [k \in kept |->
            CASE k \in StringKeys -> Trim(params[k])
              [] k \in NumericKeys -> NumberToString(params[k])
              [] k = "include_deleted" -> <<"t", "r", "u", "e">>
              [] OTHER -> params[k]]

Includes(s, sub) ==
    \E i \in 0..(Len(s) - Len(sub)) : SubSeq(s, i + 1, i + Len(sub)) = sub

ApplicationJson ==
    <<"a", "p", "p", "l", "i", "c", "a", "t", "i", "o", "n", "/",
      "j", "s", "o", "n">>

Return(v) == <<"return", v>>

Throw(e) == <<"throw", e>>

ApiError(shape) == <<"ApiError", shape>>

\* the text of a JavaScript string made at run time is a tuple, as the
\* text of a body is
SyntaxError == <<"SyntaxError", <<"message", "Unexpected token">>>>

\* response.text()
Text(body) == <<"string", body>>

IsJsonText(body) == body[1] = "json"

\* response.ok counting every status below 400
response_ok_Below400(status) == status < 400

\* response.ok
response_ok(status) == 200 <= status /\ status <= 299

\* a 204 treated as any other 2xx response
NoContent_Ignored(status) == FALSE

\* response.status === 204
NoContent(status) == status = 204

http(url, settled) ==
    IF settled[1] = "rejected"
    THEN Throw(ApiError([message |-> "Failed to reach the Exoplanet API.",
                         url |-> url, status |-> None, statusText |-> None,
                         details |-> Some(JStr(settled[2]))]))
    ELSE
    LET r == settled[2]
        contentType == IF r.contentType = None THEN <<>> ELSE r.contentType[1]
        isJson == Includes(contentType, ApplicationJson)
        ok == response_ok(r.status)
    IN  IF ~ok
        THEN Throw(ApiError(
                [message |-> "The Exoplanet API returned an error response.",
                 url |-> url, status |-> Some(r.status),
                 statusText |-> Some(r.statusText),
                 details |-> Some(IF isJson
                                  THEN (IF IsJsonText(r.body) THEN r.body[2]
                                        ELSE JStr(SyntaxError[2]))
                                  ELSE Text(r.body))]))
        ELSE IF NoContent(r.status) THEN Return(JUndefined)
        ELSE IF ~isJson THEN Return(Text(r.body))
        ELSE IF IsJsonText(r.body) THEN Return(r.body[2])
        ELSE Throw(SyntaxError)

(***************************************************************************)
(* The API client calls (api/client.ts) and what the server may answer.    *)
(***************************************************************************)
MaxItems == 2       \* a list response has at most MaxItems items

\* VITE_ADMIN_API_KEY: unset, empty, blank, or a key with white space
\* around it
EnvKeys == {None, Some(<<>>), Some(<<" ">>), Some(<<" ", "K", " ">>)}

Endpoints == {"list", "count", "deleted"}

ListRequests ==
    {Empty,
     [k \in {"limit", "offset", "name"} |->
        CASE k = "limit" -> Fin(25, 0)
          [] k = "offset" -> Fin(50, 0)
          [] OTHER -> <<"K">>]}

StatusTexts ==
    [s \in {200, 204, 304, 500} |->
        CASE s = 200 -> "OK"
          [] s = 204 -> "No Content"
          [] s = 304 -> "Not Modified"
          [] OTHER -> "Internal Server Error"]

ContentTypes ==
    {None,
     Some(ApplicationJson \o <<";", " ", "c", "h", "a", "r", "s", "e", "t",
                               "=", "u", "t", "f", "-", "8">>),
     Some(<<"t", "e", "x", "t", "/", "h", "t", "m", "l">>)}

Row(id, name) ==
    JObj([k \in {"id", "name"} |-> IF k = "id" THEN id ELSE name])

\* rows the schema accepts, and rows with a missing id, a missing name,
\* an id that is a string, a year that is a string, a created_at of null
Rows ==
    {Row(JNum(1), JStr("Kepler-22 b")),
     JObj([k \in {"id", "name", "disc_method", "disc_year", "planet_type"} |->
            CASE k = "id" -> JNum(2)
              [] k = "name" -> JStr("b")
              [] k = "disc_method" -> JNull
              [] k = "disc_year" -> JNum(2011)
              [] OTHER -> JStr("x")]),
     JObj(OneField("name", JStr("c"))),
     JObj(OneField("id", JNum(3))),
     Row(JStr("4"), JStr("d")),
     JObj([k \in {"id", "name", "disc_year"} |->
            CASE k = "id" -> JNum(5)
              [] k = "name" -> JStr("e")
              [] OTHER -> JStr("2011")]),
     JObj([k \in {"id", "name", "created_at"} |->
            CASE k = "id" -> JNum(6)
              [] k = "name" -> JStr("f")
              [] OTHER -> JNull])}

ItemLists == UNION {[1..n -> Rows] : n \in 0..MaxItems}

Envelope(items) ==
    JObj([k \in {"items", "total", "limit", "offset"} |->
            CASE k = "items" -> JArr(items)
              [] k = "total" -> JNum(120)
              [] k = "limit" -> JNum(25)
              [] OTHER -> JNum(50)])

\* an envelope with a key the schema does not name
EnvelopeWith(key, value, items) ==
    JObj([k \in DOMAIN Envelope(items)[2] \cup {key} |->
            IF k = key THEN value ELSE Envelope(items)[2][k]])

ListPayloads ==
    {Envelope(items) : items \in ItemLists}
    \cup {EnvelopeWith("took_ms", JNum(3), items) :
            items \in {i \in ItemLists : Len(i) = 1}}
    \cup {JObj(OneField("items", JArr(<<>>))), JArr(<<>>), JNull}

CountPayloads ==
    {JObj(OneField(k, v)) : k \in {"total", "count", "size"},
                            v \in {JNum(42), JNum(0), JNum(-1), JStr("42"),
                                   JNull}}
    \cup {JObj([k \in {"total", "count"} |->
                    IF k = "total" THEN t ELSE c]) :
            t \in {JNum(42), JNum(-1), JStr("42")}, c \in {JNum(7), JNum(-7)}}
    \cup {JObj([k \in {j, "as_of"} |-> IF k = j THEN JNum(42) ELSE JStr("x")]) :
            j \in {"total", "count"}}
    \cup {JObj(Empty), JNull, JNum(42), JArr(<<>>)}

DeletedPayloads ==
    {JArr(items) : items \in {<<>>, <<Row(JNum(1), JStr("g"))>>,
                              <<JObj(OneField("id", JNum(3)))>>}}
    \cup {JNull}

TextBodies == {<<"text", "">>, <<"text", "<html>Bad Gateway</html>">>}

Bodies(endpoint) ==
    TextBodies
    \cup {<<"json", v>> :
            v \in CASE endpoint = "list" -> ListPayloads
                    [] endpoint = "count" -> CountPayloads
                    [] OTHER -> DeletedPayloads}

Settlements(endpoint) ==
    {<<"rejected", <<"message", "Failed to fetch">>>>}
    \cup {<<"response", [status |-> s, statusText |-> StatusTexts[s],
                         contentType |-> c, body |-> b]>> :
            s \in DOMAIN StatusTexts, c \in ContentTypes,
            b \in Bodies(endpoint)}

\* http(path, init) up to the call of fetch
Send(endpoint, path, query, init) ==
    /\ pc = "idle"
    /\ request' = Some([endpoint |-> endpoint,
                        url |-> resolveUrl(path, query),
                        headers |-> http_headers(init)])
    /\ pc' = "sent"
    /\ UNCHANGED <<env, response, outcome>>
    /\ UNCHANGED <<filter, form, search, listParams, normalised>>
    /\ UNCHANGED <<cacheVars, pageVars, dashVars, hookVars>>

listPlanets(params) ==
    Send("list", "/planets/", toQueryString(params), NoInit)

fetchPlanetCount == Send("count", "/planets/count", Empty, NoInit)

fetchDeletedPlanets ==
    Send("deleted", "/planets/admin/deleted", Empty, withAdminAuth(NoInit))

\* fetch settles and http returns or throws
Settle(settled) ==
    /\ pc = "sent"
    /\ response' = Some(settled)
    /\ outcome' = Some([http |-> http(request[1].url, settled),
                        result |-> None])
    /\ pc' = "received"
    /\ UNCHANGED <<env, request>>
    /\ UNCHANGED <<filter, form, search, listParams, normalised>>
    /\ UNCHANGED <<cacheVars, pageVars, dashVars, hookVars>>

\* Schema.parse(payload)
Parse(endpoint, payload) ==
    LET parsed == CASE endpoint = "list" -> PlanetListResponseSchema(payload)
                    [] endpoint = "count" -> PlanetCountSchema(payload)
                    [] OTHER -> DeletedPlanetSchema(payload)
    IN  IF parsed = ZodError THEN Throw(ZodError) ELSE Return(parsed[2])

\* the client call ends: what http threw is thrown on, what it returned is
\* parsed with the schema of the endpoint
Finish ==
    /\ pc = "received"
    /\ outcome' = Some([outcome[1] EXCEPT !.result =
            Some(IF outcome[1].http[1] = "throw" THEN outcome[1].http
                 ELSE Parse(request[1].endpoint, outcome[1].http[2]))])
    /\ pc' = "done"
    /\ UNCHANGED <<env, request, response>>
    /\ UNCHANGED <<filter, form, search, listParams, normalised>>
    /\ UNCHANGED <<cacheVars, pageVars, dashVars, hookVars>>

InitHttp ==
    /\ pc = "idle"
    /\ env \in EnvKeys
    /\ request = None
    /\ response = None
    /\ outcome = None
    /\ filter = Empty
    /\ form = defaultFormState
    /\ search = Empty
    /\ listParams = Empty
    /\ normalised = <<>>
    /\ PageBoot
    /\ CacheBoot
    /\ DashBoot

NextHttp ==
    \/ \E params \in ListRequests : listPlanets(params)
    \/ fetchPlanetCount
    \/ fetchDeletedPlanets
    \/ /\ pc = "sent"
       /\ \E settled \in Settlements(request[1].endpoint) : Settle(settled)
    \/ Finish

SpecHttp == InitHttp /\ [][NextHttp]_vars
(***************************************************************************)
(* Properties of the normaliser's integers, of the pagination, of the      *)
(* overrides, of the response validators and of the HTTP wrapper.          *)
(***************************************************************************)
\* n is the number v rounded down and then raised to minimum: n is an
\* integer, n >= minimum, and n is the integer q with q <= v < q + 1
\* whenever that q is at least minimum
IsFlooredAndClamped(n, v, minimum) ==
    /\ n.k = "fin" /\ n.e = 0
    /\ n.m >= minimum
    /\ \E q \in (-MaxInt - 1)..(MaxInt + 1) :
          /\ q * Pow10(v.e) <= v.m
          /\ v.m < (q + 1) * Pow10(v.e)
          /\ n.m = IF q >= minimum THEN q ELSE minimum

(* C11: a finite limit is normalised to its floor clamped to at least 1    *)
(* and a finite offset to its floor clamped to at least 0; a missing or    *)
(* non-finite limit or offset is left out of the normalised request.       *)
C11_LimitOffsetFlooredAndClamped ==
    pc = "normalised" =>
        \A k \in {"limit", "offset"} :
            IF k \in DOMAIN filter /\ IsFinite(filter[k])
            THEN /\ k \in DOMAIN normalised[1]
                 /\ IsFlooredAndClamped(normalised[1][k], filter[k],
                                        IF k = "limit" THEN 1 ELSE 0)
            ELSE k \notin DOMAIN normalised[1]

\* a fractional offset above 1 is floored to 1, and a limit below 1 is
\* raised to 1
C11_Witness ==
    /\ pc = "normalised"
    /\ "limit" \in DOMAIN filter /\ "offset" \in DOMAIN filter
    /\ filter["offset"].k = "fin" /\ filter["offset"].e > 0
    /\ filter["offset"].m > 0
    /\ normalised[1]["offset"] = Fin(1, 0)
    /\ normalised[1]["limit"] = Fin(1, 0)

(* C12: when the decoded limit is at least 1, the decoded offset at least  *)
(* 0 and the response total at least 0, hasPrevious is (offset > 0),       *)
(* hasNext is (offset + limit < total) and the page number is              *)
(* floor(offset / limit) + 1; limit 25, offset 50 and total 120 give       *)
(* hasPrevious, hasNext and page 3.                                        *)
C12_PaginationControls ==
    (view # None /\ total # None
     /\ "limit" \in DOMAIN listParams /\ "offset" \in DOMAIN listParams)
    =>
    LET l == listParams["limit"]
        o == listParams["offset"]
        t == total[1]
        e == IF l.e > o.e THEN l.e ELSE o.e
        ls == l.m * Pow10(e - l.e)
        os == o.m * Pow10(e - o.e)
        ts == t.m * Pow10(e)
        v == view[1]
    IN  (ls >= Pow10(e) /\ os >= 0 /\ ts >= 0)
        => /\ v.hasPrevious = (os > 0)
           /\ v.hasNext = (os + ls < ts)
           /\ v.page.k = "fin" /\ v.page.e = 0
           /\ (v.page.m - 1) * ls <= os /\ os < v.page.m * ls
           /\ (ls = 25 /\ os = 50 /\ ts = 120 /\ e = 0)
                => (v.hasPrevious /\ v.hasNext /\ v.page.m = 3)

\* the page is rendered with limit 25, offset 50 and total 120
C12_Witness ==
    /\ view # None /\ total = Some(Fin(120, 0))
    /\ "limit" \in DOMAIN listParams /\ listParams["limit"] = Fin(25, 0)
    /\ listParams["offset"] = Fin(50, 0)
    /\ view[1].hasPrevious /\ view[1].hasNext /\ view[1].page = Fin(3, 0)

(* C13: a limit or offset of the URL that is not numeric counts as absent: *)
(* the pagination uses limit 25 or offset 0 and the form shows limit 25.   *)
C13_NonNumericLimitOffsetUseDefaults ==
    (pc \in {"page", "settled"} /\ view # None)
    => /\ ("limit" \in DOMAIN search /\ ~IsNumericLiteral(search["limit"]))
            => /\ view[1].limit = Fin(25, 0)
               /\ form["limit"] = <<"2", "5">>
       /\ ("offset" \in DOMAIN search /\ ~IsNumericLiteral(search["offset"]))
            => view[1].offset = Fin(0, 0)

(* C14: every key that the overrides give a value has exactly that value   *)
(* in the result of createSearchParamsFromForm, whatever the form holds;   *)
(* and the URL applyFilters and resetFilters produce has offset 0,         *)
(* whatever offset the address bar held.                                   *)
C14_OverridesWin ==
    /\ pc \in {"encoded", "applied", "reset"}
        => \A k \in DOMAIN applied :
              applied[k] # None
                => (k \in DOMAIN search /\ search[k] = applied[k][1])
    /\ pc \in {"applied", "reset"}
        => /\ "offset" \in DOMAIN search /\ search["offset"] = <<"0">>
           /\ paramsFromSearch(search)["offset"] = Fin(0, 0)

\* the form holds a limit and the overrides another one: the result has
\* the limit of the overrides
C14_Witness ==
    /\ pc = "encoded"
    /\ form["limit"] = <<"2", "5">>
    /\ "limit" \in DOMAIN applied /\ applied["limit"] = Some(<<"0">>)
    /\ search["limit"] = <<"0">>

\* the client call for the endpoint has ended and http had returned p
Returned(endpoint, p) ==
    /\ pc = "done"
    /\ request[1].endpoint = endpoint
    /\ outcome[1].http = Return(p)

\* the JSON value p is an object whose key k holds a number
NumericField(p, k) ==
    p[1] = "object" /\ k \in DOMAIN p[2] /\ p[2][k][1] = "number"

TotalOf(n) == <<"object", OneField("total", <<"number", n>>)>>

(* C15: a count payload with a numeric total n validates to {total: n}; a  *)
(* payload with a numeric count n (and no numeric total) validates to      *)
(* {total: n}; a payload with neither fails validation.                    *)
C15_CountShapesNormalised ==
    \A p \in CountPayloads :
        Returned("count", p) =>
            outcome[1].result[1] =
                IF NumericField(p, "total") THEN Return(TotalOf(p[2]["total"][2]))
                ELSE IF NumericField(p, "count")
                THEN Return(TotalOf(p[2]["count"][2]))
                ELSE Throw(ZodError)

\* the JSON value p is an object whose key k holds a number that is not
\* negative
NonNegativeField(p, k) == NumericField(p, k) /\ p[2][k][2] >= 0

(* C15 amended: the same for totals and counts that are not negative; a    *)
(* negative total or count is not accepted.                                *)
C15_NonNegativeCountShapesNormalised ==
    \A p \in CountPayloads :
        Returned("count", p) =>
            outcome[1].result[1] =
                IF NonNegativeField(p, "total")
                THEN Return(TotalOf(p[2]["total"][2]))
                ELSE IF NonNegativeField(p, "count")
                THEN Return(TotalOf(p[2]["count"][2]))
                ELSE Throw(ZodError)

\* the payload {count: 42} validates to {total: 42}
C15_Witness ==
    /\ Returned("count", <<"object", OneField("count", <<"number", 42>>)>>)
    /\ outcome[1].result[1] = Return(TotalOf(42))

\* an item that is not an object, lacks id or name, or holds a value of
\* the wrong type in a field the schema names
MalformedItem(v) ==
    \/ v[1] # "object"
    \/ "id" \notin DOMAIN v[2] \/ "name" \notin DOMAIN v[2]
    \/ v[2]["id"][1] # "number" \/ v[2]["name"][1] # "string"
    \/ \E k \in DOMAIN v[2] :
          \/ k \in {"disc_year", "orbperd", "rade", "masse", "st_teff",
                    "st_rad", "st_mass"}
             /\ v[2][k][1] \notin {"number", "null"}
          \/ k \in {"disc_method", "deleted_at"}
             /\ v[2][k][1] \notin {"string", "null"}
          \/ k \in {"created_at", "updated_at"} /\ v[2][k][1] # "string"

HasMalformedItem(p) ==
    /\ p[1] = "object" /\ "items" \in DOMAIN p[2]
    /\ p[2]["items"][1] = "array"
    /\ \E i \in 1..Len(p[2]["items"][2]) : MalformedItem(p[2]["items"][2][i])

(* C16: a list response with a malformed item makes listPlanets throw a    *)
(* validation error; and whatever listPlanets returns is the whole         *)
(* payload, never a list with items left out.                              *)
C16_MalformedItemFailsWholeList ==
    \A p \in ListPayloads :
        Returned("list", p) =>
            /\ HasMalformedItem(p) => outcome[1].result[1] = Throw(ZodError)
            /\ outcome[1].result[1][1] = "return"
                    => outcome[1].result[1][2] = p

\* two items, the first well formed and the second malformed
C16_Witness ==
    /\ pc = "done" /\ request[1].endpoint = "list"
    /\ outcome[1].http[1] = "return"
    /\ HasMalformedItem(outcome[1].http[2])
    /\ Len(outcome[1].http[2][2]["items"][2]) = 2
    /\ ~MalformedItem(outcome[1].http[2][2]["items"][2][1])
    /\ outcome[1].result[1] = Throw(ZodError)

(* C17: with VITE_ADMIN_API_KEY unset, empty or blank, the request to      *)
(* /planets/admin/deleted has no x-api-key header.                         *)
C17_NoAdminKeyNoHeader ==
    (request # None /\ request[1].endpoint = "deleted"
     /\ (env = None \/ \A i \in 1..Len(env[1]) : env[1][i] = " "))
        => "x-api-key" \notin DOMAIN request[1].headers

\* a blank key, and the request to the admin endpoint was sent without the
\* header
C17_Witness ==
    /\ env = Some(<<" ">>)
    /\ pc = "done"
    /\ request[1].url[2] = "/planets/admin/deleted"
    /\ DOMAIN request[1].headers = {"accept"}

\* fetch settled with a response whose status is outside 200..299
ErrorResponse ==
    /\ pc \in {"received", "done"}
    /\ response[1][1] = "response"
    /\ (response[1][2].status < 200 \/ response[1][2].status > 299)

\* http threw an ApiError that has a message, the URL of the request and
\* the status and status text of the response
ThrewApiErrorOfResponse ==
    /\ outcome[1].http[1] = "throw"
    /\ outcome[1].http[2][1] = "ApiError"
    /\ outcome[1].http[2][2].message # ""
    /\ outcome[1].http[2][2].url = request[1].url
    /\ outcome[1].http[2][2].status = Some(response[1][2].status)
    /\ outcome[1].http[2][2].statusText = Some(response[1][2].statusText)
    /\ outcome[1].http[2][2].details # None

\* fetch rejected and http threw an ApiError with the URL and no status
TransportFailureHasNoStatus ==
    (pc \in {"received", "done"} /\ response[1][1] = "rejected")
        => /\ outcome[1].http[1] = "throw"
           /\ outcome[1].http[2][1] = "ApiError"
           /\ outcome[1].http[2][2].url = request[1].url
           /\ outcome[1].http[2][2].status = None

\* the content type of the response names application/json
DeclaredJson ==
    /\ response[1][2].contentType # None
    /\ Includes(response[1][2].contentType[1], ApplicationJson)

C19_NoContentReturnsUndefined ==
    (pc \in {"received", "done"} /\ response[1][1] = "response"
     /\ response[1][2].status = 204)
        => outcome[1].http = <<"return", <<"undefined">>>>

\* a 204 response that declares JSON and has an empty body
C19_Witness ==
    /\ pc = "received"
    /\ response[1][1] = "response"
    /\ response[1][2].status = 204
    /\ DeclaredJson
    /\ response[1][2].body = <<"text", "">>
    /\ outcome[1].http = <<"return", <<"undefined">>>>

(***************************************************************************)
(* What PlanetsPage puts under its pagination bar.                         *)
(***************************************************************************)
\* PlanetsPage without the error branch: a failed read shows as no rows
PlanetsPage_results_NoErrorState(listQuery) ==
    IF listQuery.isLoading THEN <<"LoadingSkeleton", None>>
    ELSE <<"PlanetTable", listQuery.data>>

\* listQuery.isError ? ErrorState : listQuery.isLoading ? LoadingSkeleton
\* : the table (or the empty message) made of listQuery.data
PlanetsPage_results(listQuery) ==
    IF listQuery.isError THEN <<"ErrorState", None>>
    ELSE IF listQuery.isLoading THEN <<"LoadingSkeleton", None>>
    ELSE <<"PlanetTable", listQuery.data>>

Displayed == PlanetsPage_results(Render)

\* the slot of the current parameters has neither data nor an error: no
\* response for them has arrived
NoResponseYet(c, k) == SlotOf(c, k).data = None /\ ~SlotOf(c, k).error

(* C20: when the parameters of the mounted page change to parameters no    *)
(* response has arrived for, and the page was showing list data, the page  *)
(* goes on showing that data and no loading placeholder; as long as no     *)
(* response for the new parameters has arrived it shows the data it showed *)
(* last; and it shows the loading placeholder only when it has shown no    *)
(* data since it was mounted.                                              *)
C20_PreviousDataStaysVisible ==
    /\ [][\A s \in CacheUrls :
            (/\ Visit(s)
             /\ usePlanetList_queryKey(paramsFromSearch(s)) # ListKey
             /\ Displayed[1] = "PlanetTable" /\ Displayed[2] # None
             /\ NoResponseYet(cache, usePlanetList_queryKey(paramsFromSearch(s))))
                => Displayed' = Displayed]_vars
    /\ []((route = "planets" /\ prev # None /\ NoResponseYet(cache, ListKey))
            => Displayed = <<"PlanetTable", cache[prev[1]].data>>)
    /\ []((route = "planets" /\ Displayed[1] = "LoadingSkeleton")
            => prev = None)

\* The page showed the data of one key, its parameters changed, and while
\* the request for the new key is in flight it shows the data of the first
\* key as a placeholder.
C20_Witness ==
    /\ route = "planets"
    /\ prev # None /\ prev[1] # ListKey
    /\ cache[ListKey].data = None /\ cache[ListKey].req # 0
    /\ Render.isPlaceholderData
    /\ Displayed = <<"PlanetTable", cache[prev[1]].data>>

(* C21: a list request that fails changes the data of no cache slot; it   *)
(* is either sent again (the one retry of the query client) or leaves its  *)
(* slot in the error state, and then the page that reads the slot shows    *)
(* the error state; the Retry button of that error state sends the request *)
(* of the page's current parameters again.                                 *)
C21_FailedReadSurfacesAndKeepsData ==
    /\ [][\A r \in net :
            (Respond(r, FALSE) /\ Awaited(r))
                => /\ \A k \in DOMAIN cache : cache'[k].data = cache[k].data
                   /\ cache'[r.key].req # 0 \/ cache'[r.key].error
                   /\ (route = "planets" /\ r.key = ListKey
                       /\ cache'[r.key].req = 0)
                        => Displayed' = <<"ErrorState", None>>]_vars
    /\ [][ClickRetry
            => \E r \in net' \ net :
                  /\ r.key = ListKey
                  /\ r.payload = usePlanetList_queryFn(listParams)
                  /\ cache'[ListKey].req = r.id]_vars

\* The list request and its retry have both failed: the page shows the
\* error state.
C21_Witness ==
    /\ route = "planets"
    /\ cache[ListKey].fails = 2 /\ cache[ListKey].req = 0
    /\ Displayed = <<"ErrorState", None>>

\* A refetch of a slot that holds data has failed: the data is still there.
C21_WitnessDataKept ==
    \E k \in DOMAIN cache : cache[k].error /\ cache[k].data # None

(***************************************************************************)
(* The dashboard forms.  Two versions of DashboardPage are in the          *)
(* repository: pages/DashboardPage.tsx deletes a planet by its name        *)
(* (version "name"), the other one deletes it by its id and has a lookup   *)
(* button that finds the id of a name (version "id").                      *)
(***************************************************************************)
MaxRequests == 3    \* the dashboard sends at most MaxRequests requests

\* toNumber: Number(value) when it is finite, else undefined
toNumber(value) ==
    IF IsFinite(StringToNumber(value)) THEN Some(StringToNumber(value))
    ELSE None

CreateNumericKeys(version) ==
    IF version = "name" THEN {"disc_year"}
    ELSE {"disc_year", "orbperd", "rade", "masse", "st_teff", "st_rad",
          "st_mass"}

CreateKeys(version) == {"name", "disc_method"} \cup CreateNumericKeys(version)

DeleteKeys(version) ==
    IF version = "name" THEN {"planetName"} ELSE {"planetId", "planetName"}

\* useMutation: status, variables, and for the delete by name the step its
\* mutationFn has reached and the planet its lookup returned
IdleMutation ==
    [status |-> "idle", variables |-> None, step |-> "none", planet |-> None]

\* mutate(variables)
PendingMutation(variables, step) ==
    [status |-> "pending", variables |-> Some(variables), step |-> step,
     planet |-> None]

\* createPlanet(input): POST /planets/ with the input as JSON body
createPlanet(input) ==
    [method |-> "POST", path |-> <<"/planets/", None>>, body |-> Some(input)]

\* softDeletePlanet(planetId): DELETE /planets/{planetId}
softDeletePlanet(planetId) ==
    [method |-> "DELETE", path |-> <<"/planets/", Some(<<"id", planetId>>)>>,
     body |-> None]

\* fetchPlanetByName(name): GET /planets/by-name/{name}
fetchPlanetByName(name) ==
    [method |-> "GET",
     path |-> <<"/planets/by-name/", Some(<<"name", name>>)>>,
     body |-> None]

\* timelineParams of the dashboard: start_year and end_year of the filters
timelineParams(timelineFilters) ==
    Obj([k \in {"start_year", "end_year"} |->
            IF k = "start_year" THEN toNumber(timelineFilters.startYear)
            ELSE toNumber(timelineFilters.endYear)])

\* usePlanetTimeline: the cleaned parameters of the key and of the request
usePlanetTimeline_cleaned(params) ==
    Obj([k \in {"start_year", "end_year"} |->
            IF k \in DOMAIN params THEN toOptionalNumber(Some(params[k]))
            ELSE None])

\* fetchPlanetTimeline(params): GET /planets/timeline and the query string
\* toQueryString makes of the numbers
fetchPlanetTimeline(params) ==
    [method |-> "GET", path |-> <<"/planets/timeline", None>>,
     body |-> None,
     query |-> [k \in {j \in DOMAIN params : IsFinite(params[j])} |->
                    NumberToString(params[k])]]

\* the texts typed into the text inputs, into the inputs of type number
\* (whose value is empty unless it is a number), and the ids and names of
\* the planets the server answers with
NameTexts == {<<>>, <<" ">>, <<" ", "K">>}

PlanetNameTexts == {<<>>, <<"K", " ">>}

NumberTexts == {<<>>, <<"7">>}

PlanetIds == {Fin(7, 0), Fin(9, 0)}

\* the fields of the forms the user edits
CreateEditKeys == {"name", "disc_year"}

\* DashboardPage as it is mounted: the useState initial values, idle
\* mutations and the timeline request of the empty timeline filters
DashboardPage(version) ==
    [version |-> version,
     createForm |-> [k \in CreateKeys(version) |-> <<>>],
     deleteForm |-> [k \in DeleteKeys(version) |-> <<>>],
     createFormError |-> None,
     deleteFormError |-> None,
     createdPlanetName |-> None,
     deletedPlanet |-> None,
     pendingDeletionName |-> None,
     lookupPlanet |-> None,
     lookupError |-> None,
     timelineFilters |-> [startYear |-> <<>>, endYear |-> <<>>],
     timelineRequest |->
        fetchPlanetTimeline(usePlanetTimeline_cleaned(
            timelineParams([startYear |-> <<>>, endYear |-> <<>>]))),
     createPlanetMutation |-> IdleMutation,
     deletePlanetMutation |-> IdleMutation,
     lookupPlanetMutation |-> IdleMutation,
     invalidations |-> 0]

\* an action of the dashboard changes dashboard and wire only
DashboardFrame ==
    UNCHANGED <<codecVars, cacheVars, pageVars, httpVars, hookVars>>

\* onChange of an input of the create form
setCreateForm(key, text) ==
    /\ dashboard.createForm[key] # text
    /\ dashboard' = [dashboard EXCEPT !.createForm[key] = text]
    /\ UNCHANGED wire
    /\ DashboardFrame

\* onChange of the planet id input of the delete form
setDeleteForm_planetId(text) ==
    /\ dashboard.version = "id"
    /\ dashboard.deleteForm["planetId"] # text
    /\ dashboard' = [dashboard EXCEPT !.deleteForm["planetId"] = text]
    /\ UNCHANGED wire
    /\ DashboardFrame

\* onChange of the planet name input of the delete form; the version with
\* the lookup also clears the lookup error, and the planet it found when
\* the name is blank
setDeleteForm_planetName(text) ==
    /\ dashboard.deleteForm["planetName"] # text
    /\ dashboard' =
         IF dashboard.version = "name"
         THEN [dashboard EXCEPT !.deleteForm["planetName"] = text]
         ELSE [dashboard EXCEPT
                 !.deleteForm["planetName"] = text,
                 !.lookupError = None,
                 !.lookupPlanet = IF Len(Trim(text)) = 0 THEN None ELSE @]
    /\ UNCHANGED wire
    /\ DashboardFrame

\* onChange of a timeline filter: timelineParams is computed again and
\* usePlanetTimeline reads the timeline of the new parameters
setTimelineFilters(key, text) ==
    /\ dashboard.version = "name"
    /\ dashboard.timelineFilters[key] # text
    /\ LET filters == [dashboard.timelineFilters EXCEPT ![key] = text]
       IN  dashboard' = [dashboard EXCEPT
                !.timelineFilters = filters,
                !.timelineRequest =
                    fetchPlanetTimeline(usePlanetTimeline_cleaned(
                        timelineParams(filters)))]
    /\ UNCHANGED wire
    /\ DashboardFrame

\* the payload handleCreateSubmit builds of the create form
handleCreateSubmit_payload(createForm, version) ==
    Obj([k \in CreateKeys(version) |->
            CASE k = "name" -> Some(Trim(createForm[k]))
              [] k = "disc_method" ->
                    IF Len(Trim(createForm[k])) > 0
                    THEN Some(Trim(createForm[k])) ELSE None
              [] OTHER -> toNumber(createForm[k])])

\* the create form is submitted (its button is disabled while the create
\* mutation is pending)
handleCreateSubmit ==
    /\ dashboard.createPlanetMutation.status # "pending"
    /\ IF Len(Trim(dashboard.createForm["name"])) = 0
       THEN /\ dashboard' = [dashboard EXCEPT
                    !.createFormError = Some("Planet name is required.")]
            /\ UNCHANGED wire
       ELSE /\ Len(wire) < MaxRequests
            /\ dashboard' = [dashboard EXCEPT
                    !.createFormError = None,
                    !.createdPlanetName = None,
                    !.createPlanetMutation =
                        PendingMutation(
                            handleCreateSubmit_payload(dashboard.createForm,
                                                       dashboard.version),
                            "create")]
            /\ wire' = Append(wire, createPlanet(
                            handleCreateSubmit_payload(dashboard.createForm,
                                                       dashboard.version)))
    /\ DashboardFrame

\* createPlanetMutation with the form cleared in onSettled
createPlanetSettled_ClearsOnSettled(ok) ==
    /\ dashboard.createPlanetMutation.status = "pending"
    /\ dashboard' =
         [dashboard EXCEPT
            !.createForm = [k \in DOMAIN @ |-> <<>>],
            !.createFormError = None,
            !.createPlanetMutation.status = IF ok THEN "success" ELSE "error",
            !.invalidations = IF ok THEN @ + 1 ELSE @]
    /\ UNCHANGED wire
    /\ DashboardFrame

\* POST /planets/ is answered: onSuccess clears the form and invalidates
\* the planet queries; an error only sets the state of the mutation
createPlanetSettled(ok) ==
    /\ dashboard.createPlanetMutation.status = "pending"
    /\ dashboard' =
         IF ok
         THEN [dashboard EXCEPT
                 !.createForm = [k \in DOMAIN @ |-> <<>>],
                 !.createFormError = None,
                 !.createdPlanetName =
                    Some(dashboard.createPlanetMutation.variables[1].name),
                 !.createPlanetMutation.status = "success",
                 !.invalidations = @ + 1]
         ELSE [dashboard EXCEPT !.createPlanetMutation.status = "error"]
    /\ UNCHANGED wire
    /\ DashboardFrame

\* handleDeleteSubmit of the version that deletes by name
handleDeleteSubmit_byName ==
    LET name == Trim(dashboard.deleteForm["planetName"])
    IN  IF Len(name) = 0
        THEN /\ dashboard' = [dashboard EXCEPT
                    !.deleteFormError =
                        Some("Enter the planet name you wish to remove.")]
             /\ UNCHANGED wire
        ELSE /\ Len(wire) + 2 <= MaxRequests
             /\ dashboard' = [dashboard EXCEPT
                    !.deleteFormError = None,
                    !.deletedPlanet = None,
                    !.deletePlanetMutation = PendingMutation(name, "lookup")]
             /\ wire' = Append(wire, fetchPlanetByName(name))

\* handleDeleteSubmit of the version that deletes by id
handleDeleteSubmit_byId ==
    LET parsedId == toNumber(dashboard.deleteForm["planetId"])
    IN  IF parsedId = None
        THEN /\ dashboard' = [dashboard EXCEPT
                    !.deleteFormError =
                        Some("Enter a valid numeric planet ID.")]
             /\ UNCHANGED wire
        ELSE /\ Len(wire) < MaxRequests
             /\ dashboard' = [dashboard EXCEPT
                    !.deleteFormError = None,
                    !.deletedPlanet = None,
                    !.pendingDeletionName =
                        IF dashboard.lookupPlanet # None
                           /\ dashboard.lookupPlanet[1].id = parsedId[1]
                        THEN Some(dashboard.lookupPlanet[1].name) ELSE None,
                    !.deletePlanetMutation =
                        PendingMutation(parsedId[1], "delete")]
             /\ wire' = Append(wire, softDeletePlanet(parsedId[1]))

\* the delete form is submitted (its button is disabled while the delete
\* mutation is pending)
handleDeleteSubmit ==
    /\ dashboard.deletePlanetMutation.status # "pending"
    /\ IF dashboard.version = "name" THEN handleDeleteSubmit_byName
       ELSE handleDeleteSubmit_byId
    /\ DashboardFrame

\* the delete by name with softDeletePlanet called whatever the lookup gave
deletePlanetMutation_lookupSettled_IgnoresFailure(ok, id) ==
    /\ dashboard.deletePlanetMutation.status = "pending"
    /\ dashboard.deletePlanetMutation.step = "lookup"
    /\ dashboard' = [dashboard EXCEPT
            !.deletePlanetMutation.step = "delete",
            !.deletePlanetMutation.planet =
                Some([id |-> id,
                      name |-> dashboard.deletePlanetMutation.variables[1]])]
    /\ wire' = Append(wire, softDeletePlanet(id))
    /\ DashboardFrame

\* mutationFn of the delete by name: fetchPlanetByName is answered; with a
\* planet softDeletePlanet(planet.id) is called, with an error the
\* mutation fails
deletePlanetMutation_lookupSettled(ok, id) ==
    /\ dashboard.deletePlanetMutation.status = "pending"
    /\ dashboard.deletePlanetMutation.step = "lookup"
    /\ IF ok
       THEN /\ dashboard' = [dashboard EXCEPT
                    !.deletePlanetMutation.step = "delete",
                    !.deletePlanetMutation.planet =
                        Some([id |-> id,
                              name |-> dashboard.deletePlanetMutation
                                            .variables[1]])]
            /\ wire' = Append(wire, softDeletePlanet(id))
       ELSE /\ dashboard' = [dashboard EXCEPT
                    !.deletePlanetMutation.status = "error"]
            /\ UNCHANGED wire
    /\ DashboardFrame

\* DELETE /planets/{id} is answered: onSuccess clears the delete form and
\* invalidates the planet queries; an error sets the state of the mutation
\* (and, in the version that deletes by id, forgets the pending name)
deletePlanetMutation_deleteSettled(ok) ==
    /\ dashboard.deletePlanetMutation.status = "pending"
    /\ dashboard.deletePlanetMutation.step = "delete"
    /\ dashboard' =
         IF ok /\ dashboard.version = "name"
         THEN [dashboard EXCEPT
                 !.deleteForm = [k \in DOMAIN @ |-> <<>>],
                 !.deleteFormError = None,
                 !.deletedPlanet =
                    Some([id |-> dashboard.deletePlanetMutation.planet[1].id,
                          name |-> Some(dashboard.deletePlanetMutation
                                            .planet[1].name)]),
                 !.deletePlanetMutation.status = "success",
                 !.invalidations = @ + 1]
         ELSE IF ok
         THEN [dashboard EXCEPT
                 !.deleteForm = [k \in DOMAIN @ |-> <<>>],
                 !.deleteFormError = None,
                 !.deletedPlanet =
                    Some([id |-> dashboard.deletePlanetMutation.variables[1],
                          name |-> dashboard.pendingDeletionName]),
                 !.pendingDeletionName = None,
                 !.lookupPlanet = None,
                 !.deletePlanetMutation.status = "success",
                 !.invalidations = @ + 1]
         ELSE IF dashboard.version = "name"
         THEN [dashboard EXCEPT !.deletePlanetMutation.status = "error"]
         ELSE [dashboard EXCEPT !.deletePlanetMutation.status = "error",
                                !.pendingDeletionName = None]
    /\ UNCHANGED wire
    /\ DashboardFrame

\* the Find ID button (disabled while the lookup is pending)
handleLookupClick ==
    /\ dashboard.version = "id"
    /\ dashboard.lookupPlanetMutation.status # "pending"
    /\ LET trimmed == Trim(dashboard.deleteForm["planetName"])
       IN  IF Len(trimmed) = 0
           THEN /\ dashboard' = [dashboard EXCEPT
                        !.lookupError =
                            Some("Enter a planet name to search for its ID."),
                        !.lookupPlanet = None]
                /\ UNCHANGED wire
           ELSE /\ Len(wire) < MaxRequests
                /\ dashboard' = [dashboard EXCEPT
                        !.lookupError = None,
                        !.lookupPlanetMutation =
                            PendingMutation(trimmed, "lookup")]
                /\ wire' = Append(wire, fetchPlanetByName(trimmed))
    /\ DashboardFrame

\* the lookup is answered: onSuccess shows the planet and puts its id into
\* the delete form, onError shows the message
lookupPlanetMutation_settled(ok, id) ==
    /\ dashboard.lookupPlanetMutation.status = "pending"
    /\ dashboard' =
         IF ok
         THEN [dashboard EXCEPT
                 !.lookupPlanet =
                    Some([id |-> id,
                          name |-> dashboard.lookupPlanetMutation
                                        .variables[1]]),
                 !.lookupError = None,
                 !.deleteForm["planetId"] = NumberToString(id),
                 !.lookupPlanetMutation.status = "success"]
         ELSE [dashboard EXCEPT
                 !.lookupPlanet = None,
                 !.lookupError = Some("lookup failed"),
                 !.lookupPlanetMutation.status = "error"]
    /\ UNCHANGED wire
    /\ DashboardFrame

InitDashboard ==
    /\ dashboard \in {DashboardPage("name"), DashboardPage("id")}
    /\ wire = <<>>
    /\ store = <<>>
    /\ served = <<>>
    /\ pc = "dashboard"
    /\ filter = Empty
    /\ form = defaultFormState
    /\ search = Empty
    /\ listParams = Empty
    /\ normalised = <<>>
    /\ CacheBoot
    /\ PageBoot
    /\ HttpBoot

NextDashboard ==
    \/ \E key \in CreateEditKeys, text \in NameTexts \cup NumberTexts :
          /\ text \in (IF key = "name" THEN NameTexts ELSE NumberTexts)
          /\ setCreateForm(key, text)
    \/ \E text \in NumberTexts : setDeleteForm_planetId(text)
    \/ \E text \in PlanetNameTexts : setDeleteForm_planetName(text)
    \/ \E key \in {"startYear", "endYear"}, text \in NumberTexts :
          setTimelineFilters(key, text)
    \/ handleCreateSubmit
    \/ \E ok \in BOOLEAN : createPlanetSettled(ok)
    \/ handleDeleteSubmit
    \/ \E ok \in BOOLEAN, id \in PlanetIds :
          deletePlanetMutation_lookupSettled(ok, id)
    \/ \E ok \in BOOLEAN : deletePlanetMutation_deleteSettled(ok)
    \/ handleLookupClick
    \/ \E ok \in BOOLEAN, id \in PlanetIds : lookupPlanetMutation_settled(ok, id)

SpecDashboard == InitDashboard /\ [][NextDashboard]_vars

(***************************************************************************)
(* Properties of the dashboard forms.                                      *)
(***************************************************************************)
\* the request sent last
LastSent == wire[Len(wire)]

CreateFormEdited ==
    \E key \in CreateEditKeys, text \in NameTexts \cup NumberTexts :
        setCreateForm(key, text)

DeleteFormEdited ==
    \/ \E text \in NumberTexts : setDeleteForm_planetId(text)
    \/ \E text \in PlanetNameTexts : setDeleteForm_planetName(text)

DeleteFailed ==
    \/ \E id \in PlanetIds : deletePlanetMutation_lookupSettled(FALSE, id)
    \/ deletePlanetMutation_deleteSettled(FALSE)

(* C22: a create or delete mutation that fails leaves every field of its   *)
(* form as it was and puts the mutation in its error state, which the form *)
(* shows; the create form changes only by an edit or by the success of the *)
(* create mutation, the delete form only by an edit, by a successful       *)
(* lookup (which fills in the id) or by the success of the delete.         *)
C22_FailedMutationKeepsForm ==
    /\ [][createPlanetSettled(FALSE)
            => /\ dashboard'.createForm = dashboard.createForm
               /\ dashboard'.createPlanetMutation.status = "error"]_vars
    /\ [][DeleteFailed
            => /\ dashboard'.deleteForm = dashboard.deleteForm
               /\ dashboard'.deletePlanetMutation.status = "error"]_vars
    /\ [][dashboard'.createForm # dashboard.createForm
            => CreateFormEdited \/ createPlanetSettled(TRUE)]_vars
    /\ [][dashboard'.deleteForm # dashboard.deleteForm
            => \/ DeleteFormEdited
               \/ deletePlanetMutation_deleteSettled(TRUE)
               \/ \E id \in PlanetIds :
                    lookupPlanetMutation_settled(TRUE, id)]_vars

\* The create request failed and the form still holds the name and the
\* year the user typed.
C22_Witness ==
    /\ dashboard.createPlanetMutation.status = "error"
    /\ dashboard.createForm["name"] = <<" ", "K">>
    /\ dashboard.createForm["disc_year"] = <<"7">>
    /\ Len(wire) > 0 /\ LastSent.method = "POST"

\* s is the text of a number
IsNumberText(s) ==
    LET t == Trim(s)
    IN  t # <<>> /\ IsFinite(StringToNumber(t))

(* C23: a create form submitted with a name that is empty after trimming   *)
(* sends no request, and a delete form (of the version that deletes by id) *)
(* submitted with an id field that is empty or not the text of a number    *)
(* sends no request; the submission changes the form's error message only. *)
C23_InvalidFormSendsNothing ==
    /\ [][(handleCreateSubmit /\ Len(Trim(dashboard.createForm["name"])) = 0)
            => /\ wire' = wire
               /\ dashboard' = [dashboard EXCEPT
                                  !.createFormError = dashboard'.createFormError]
         ]_vars
    /\ [][(handleDeleteSubmit /\ dashboard.version = "id"
           /\ ~IsNumberText(dashboard.deleteForm["planetId"]))
            => /\ wire' = wire
               /\ dashboard' = [dashboard EXCEPT
                                  !.deleteFormError = dashboard'.deleteFormError]
         ]_vars

(* C29: a create form submitted with a numeric field left empty sends a    *)
(* payload without that field, and a dashboard whose start year or end     *)
(* year input is empty reads the timeline without start_year or end_year.  *)
C29_EmptyNumericInputIsAbsent ==
    /\ [][(handleCreateSubmit /\ wire' # wire)
            => \A k \in CreateNumericKeys(dashboard.version) :
                  dashboard.createForm[k] = <<>>
                    => k \notin DOMAIN wire'[Len(wire')].body[1]]_vars
    /\ [](dashboard.version = "name"
            => /\ dashboard.timelineFilters.startYear = <<>>
                    => "start_year" \notin DOMAIN dashboard.timelineRequest.query
               /\ dashboard.timelineFilters.endYear = <<>>
                    => "end_year" \notin DOMAIN dashboard.timelineRequest.query)

(* C30: in the delete by name, a DELETE request is sent only in the step   *)
(* in which the lookup by name succeeds, and for the id the lookup gave;   *)
(* when the lookup fails no request is sent, the mutation is in its error  *)
(* state, the delete form is as it was and nothing is invalidated; and     *)
(* while the delete mutation is pending the delete form is not submitted.  *)
C30_DeleteByNameAfterLookup ==
    /\ [][(dashboard.version = "name" /\ wire' # wire
           /\ wire'[Len(wire')].method = "DELETE")
            => /\ \E id \in PlanetIds :
                    /\ deletePlanetMutation_lookupSettled(TRUE, id)
                    /\ wire'[Len(wire')] = softDeletePlanet(id)
               /\ \E i \in 1..Len(wire) :
                    wire[i] = fetchPlanetByName(
                                dashboard.deletePlanetMutation.variables[1])
         ]_vars
    /\ [][(dashboard.version = "name"
           /\ \E id \in PlanetIds : deletePlanetMutation_lookupSettled(FALSE, id))
            => /\ wire' = wire
               /\ dashboard'.deletePlanetMutation.status = "error"
               /\ dashboard'.deleteForm = dashboard.deleteForm
               /\ dashboard'.invalidations = dashboard.invalidations]_vars
    /\ [][dashboard.deletePlanetMutation.status = "pending"
            => ~handleDeleteSubmit]_vars

\* The lookup of the name K answered with the planet 9, DELETE /planets/9
\* was sent after it and succeeded.
C30_Witness ==
    /\ dashboard.version = "name"
    /\ wire = <<fetchPlanetByName(<<"K">>), softDeletePlanet(Fin(9, 0))>>
    /\ dashboard.deletePlanetMutation.status = "success"
    /\ dashboard.invalidations = 1

\* The lookup failed: one request was sent, the form keeps the name.
C30_WitnessLookupFailed ==
    /\ dashboard.version = "name"
    /\ wire = <<fetchPlanetByName(<<"K">>)>>
    /\ dashboard.deletePlanetMutation.status = "error"
    /\ dashboard.deleteForm["planetName"] = <<"K", " ">>
    /\ dashboard.invalidations = 0

(***************************************************************************)
(* Sort fields: the two places that filter sort_by and sort_order, the     *)
(* decoder of the query string (paramsFromSearch) and the normaliser of    *)
(* the request (normaliseListParams), each applied to its own input.       *)
(***************************************************************************)
InitSort ==
    /\ \/ pc = "url" /\ search \in SearchInputs /\ filter = Empty
       \/ pc = "params" /\ filter \in FilterInputs /\ search = Empty
    /\ form = defaultFormState
    /\ listParams = Empty
    /\ normalised = <<>>
    /\ CacheBoot
    /\ PageBoot
    /\ HttpBoot
    /\ DashBoot

NextSort == Decode \/ Normalise

SpecSort == InitSort /\ [][NextSort]_vars

\* the sort_by and sort_order of out are those of in when in holds an allowed
\* field (an allowed direction), and are absent otherwise
SortKept(in, out) ==
    /\ Cardinality(SortFields) = 11
    /\ IF "sort_by" \in DOMAIN in /\ in["sort_by"] \in SortFields
       THEN "sort_by" \in DOMAIN out /\ out["sort_by"] = in["sort_by"]
       ELSE "sort_by" \notin DOMAIN out
    /\ IF "sort_order" \in DOMAIN in /\ in["sort_order"] \in {<<"a", "s", "c">>, <<"d", "e", "s", "c">>}
       THEN "sort_order" \in DOMAIN out /\ out["sort_order"] = in["sort_order"]
       ELSE "sort_order" \notin DOMAIN out

\* C24: sort_by is kept only when it is one of the eleven allowed fields and
\* sort_order only when it is "asc" or "desc", both when the query string is
\* decoded and when the request is normalised; any other value is dropped.
C24_SortValuesAreAllowedOrDropped ==
    /\ pc = "decoded" => SortKept(search, listParams)
    /\ pc = "normalised" => SortKept(filter, normalised[1])

\* a query string whose sort_by is the upper-case "ID" has been decoded
C24_Witness ==
    /\ pc = "decoded"
    /\ "sort_by" \in DOMAIN search /\ search["sort_by"] = BogusSort
    /\ "sort_by" \notin DOMAIN listParams

\* a request whose sort_by is "name" and sort_order "asc" has been normalised
C24_WitnessKept ==
    /\ pc = "normalised"
    /\ "sort_by" \in DOMAIN filter /\ filter["sort_by"] = <<"n", "a", "m", "e">>
    /\ normalised[1]["sort_by"] = <<"n", "a", "m", "e">>
    /\ normalised[1]["sort_order"] = Asc

(***************************************************************************)
(* Properties of the validators' treatment of the keys they do not name.   *)
(***************************************************************************)
\* the keys PlanetRowSchema names
RowKeys ==
    {"id", "name", "disc_method", "disc_year", "orbperd", "rade", "masse",
     "st_teff", "st_rad", "st_mass", "created_at", "updated_at", "deleted_at"}

\* every key of the object in that is not among named is a key of the object
\* out, with the same value
UnnamedKept(in, out, named) ==
    \A k \in DOMAIN in[2] \ named : k \in DOMAIN out[2] /\ out[2][k] = in[2][k]

\* the validated planet record: id a number, name a string, the optional
\* year and timestamp of the right type when present
RowTyped(row) ==
    /\ row[1] = "object"
    /\ "id" \in DOMAIN row[2] /\ row[2]["id"][1] = "number"
    /\ "name" \in DOMAIN row[2] /\ row[2]["name"][1] = "string"
    /\ "disc_year" \in DOMAIN row[2] =>
            row[2]["disc_year"] = JNull \/ row[2]["disc_year"][1] = "number"
    /\ "created_at" \in DOMAIN row[2] => row[2]["created_at"][1] = "string"

\* a list payload that validated: the counts and the rows are typed, and
\* the envelope and each row keep the keys the schemas do not name
ListTolerantButStrict(in, out) ==
    /\ out[1] = "object"
    /\ \A k \in {"total", "limit", "offset"} :
          k \in DOMAIN out[2] /\ out[2][k][1] = "number"
    /\ "items" \in DOMAIN out[2] /\ out[2]["items"][1] = "array"
    /\ Len(out[2]["items"][2]) = Len(in[2]["items"][2])
    /\ \A i \in 1..Len(out[2]["items"][2]) :
          /\ RowTyped(out[2]["items"][2][i])
          /\ UnnamedKept(in[2]["items"][2][i], out[2]["items"][2][i], RowKeys)
    /\ UnnamedKept(in, out, EnvelopeKeys)

\* the validated count: total is a number
CountTyped(out) ==
    /\ out[1] = "object"
    /\ "total" \in DOMAIN out[2] /\ out[2]["total"][1] = "number"

\* the payload http returned and the value the client call returned
Validated(endpoint) ==
    /\ pc = "done"
    /\ request[1].endpoint = endpoint
    /\ outcome[1].http[1] = "return"
    /\ outcome[1].result[1][1] = "return"

\* C25 as claimed: validation is tolerant but strict: a payload that
\* validates has its required fields with the right primitive type and its
\* optional fields type-checked, and every key of the input that the schema
\* does not name is preserved on the validated output, for the planet
\* record, the list envelope and the count payload.
C25_UnnamedFieldsPreserved ==
    /\ Validated("list") =>
          ListTolerantButStrict(outcome[1].http[2], outcome[1].result[1][2])
    /\ Validated("count") =>
          /\ CountTyped(outcome[1].result[1][2])
          /\ UnnamedKept(outcome[1].http[2], outcome[1].result[1][2],
                         {"total", "count"})

\* C25 amended: as above for the planet record and the list envelope; the
\* validated count payload holds the key total and nothing else.
C25_UnnamedFieldsPreservedButCount ==
    /\ Validated("list") =>
          ListTolerantButStrict(outcome[1].http[2], outcome[1].result[1][2])
    /\ Validated("count") =>
          /\ CountTyped(outcome[1].result[1][2])
          /\ DOMAIN outcome[1].result[1][2][2] = {"total"}

\* a list payload with the unnamed key took_ms, whose row has the unnamed
\* key planet_type, has validated
C25_Witness ==
    /\ Validated("list")
    /\ "took_ms" \in DOMAIN outcome[1].http[2][2]
    /\ "planet_type" \in DOMAIN outcome[1].http[2][2]["items"][2][1][2]
    /\ outcome[1].result[1][2][2]["took_ms"] = JNum(3)
    /\ outcome[1].result[1][2][2]["items"][2][1][2]["planet_type"] = JStr("x")

\* a count payload with the unnamed key as_of has validated
C25_WitnessCount ==
    /\ Validated("count")
    /\ "as_of" \in DOMAIN outcome[1].http[2][2]
    /\ outcome[1].result[1][2] = JObj(OneField("total", JNum(42)))

(***************************************************************************)
(* Properties of the page's limit and offset and of paging.                *)
(***************************************************************************)
\* usePlanetList(listParams): the list request of the page as rendered
PageRequest == normaliseListParams(listParams)

\* C26: the limit PlanetsPage uses for its pagination arithmetic is a
\* positive integer and is the limit of the list request whose response is
\* paginated (when the request carries one), and the page's offset is the
\* offset of that request, for every URL query.
C26_PageLimitIsRequestLimit ==
    (pc \in {"page", "settled"} /\ view # None)
    => /\ IsInteger(view[1].limit) /\ NumLess(Fin(0, 0), view[1].limit)
       /\ "limit" \in DOMAIN PageRequest
            => PageRequest["limit"] = view[1].limit
       /\ "offset" \in DOMAIN PageRequest
       /\ PageRequest["offset"] = view[1].offset

\* the request a and the request b hold the same keys with the same values,
\* the keys of except aside
SameRequest(a, b, except) ==
    /\ DOMAIN a \ except = DOMAIN b \ except
    /\ \A k \in DOMAIN a \ except : a[k] = b[k]

\* the list request of the URL the click has navigated to
NextPageRequest == normaliseListParams(paramsFromSearch(search))

\* C27 as claimed: paging changes only the offset: after a click on Next or
\* Previous the offset of the URL is not negative, and the normalised list
\* request differs from the request before the click in its offset only.
C27_PagingChangesOffsetOnly ==
    pc = "paged"
    => /\ ~NumLess(StringToNumber(search["offset"]), Fin(0, 0))
       /\ SameRequest(PageRequest, NextPageRequest, {"offset"})

\* C27 amended: after a click on Next or Previous the offset of the URL is
\* not negative, and the normalised list request differs from the request
\* before the click in its offset only, except that a limit, a sort field
\* or a sort order the request before the click did not carry is sent as
\* the page's default (25, id, desc) after it.
C27_PagingChangesOffsetAndFillsDefaults ==
    pc = "paged"
    => /\ ~NumLess(StringToNumber(search["offset"]), Fin(0, 0))
       /\ SameRequest(PageRequest, NextPageRequest,
                      {"offset"} \cup ({"limit", "sort_by", "sort_order"}
                                       \ DOMAIN PageRequest))
       /\ "limit" \notin DOMAIN PageRequest
            => NextPageRequest["limit"] = Fin(25, 0)
       /\ "sort_by" \notin DOMAIN PageRequest
            => NextPageRequest["sort_by"] = <<"i", "d">>
       /\ "sort_order" \notin DOMAIN PageRequest
            => NextPageRequest["sort_order"] = <<"d", "e", "s", "c">>

\* Next has been clicked on a page filtered by name and sorted by name:
\* the request keeps both and moves from offset 50 to offset 75
C27_Witness ==
    /\ pc = "paged"
    /\ {"name", "sort_by"} \subseteq DOMAIN PageRequest
    /\ search["name"] = <<"K">>
    /\ PageRequest["name"] = <<"K">>
    /\ PageRequest["sort_by"] = <<"n", "a", "m", "e">>
    /\ PageRequest["offset"] = Fin(50, 0)
    /\ NextPageRequest["offset"] = Fin(75, 0)
    /\ NextPageRequest["sort_by"] = <<"n", "a", "m", "e">>

\* Previous has been clicked on a URL that carried no limit
C27_WitnessDefaults ==
    /\ pc = "paged"
    /\ "limit" \notin DOMAIN listParams
    /\ NumLess(NextPageRequest["offset"], PageRequest["offset"])
    /\ NextPageRequest["limit"] = Fin(25, 0)

(***************************************************************************)
(* The read hooks (hooks/usePlanets.ts): each builds a cache key and a     *)
(* request from its argument.  store holds, for every key that has been    *)
(* fetched, the request that produced the cached value; a read of a key    *)
(* that is in the store is served the cached value and sends nothing.      *)
(***************************************************************************)
MaxReads == 3       \* at most MaxReads keys are fetched

UpperCase == <<"K", "T">>
LowerCase == <<"k", "t">>

\* String.prototype.toLowerCase on the letters of the inputs
ToLowerCase(s) ==
    [i \in 1..Len(s) |->
        IF \E j \in 1..Len(UpperCase) : UpperCase[j] = s[i]
        THEN LowerCase[CHOOSE j \in 1..Len(UpperCase) : UpperCase[j] = s[i]]
        ELSE s[i]]

\* fetchMethodStats(method): GET /planets/method/{method}/stats
fetchMethodStats(method) ==
    [method |-> "GET",
     path |-> <<"/planets/method/", Some(<<"method", method>>), "/stats">>,
     body |-> None]

\* listPlanets(params): GET /planets/ and the query string
listPlanets_request(params) ==
    [method |-> "GET", path |-> <<"/planets/", None>>, body |-> None,
     query |-> toQueryString(params)]

\* name?.toLowerCase().trim() ?? null
LowerTrimmedKey(text) ==
    IF text = None THEN JNull ELSE Trim(ToLowerCase(text[1]))

\* enabled: Boolean(text && text.trim().length > 0)
NonBlank(text) == text # None /\ Len(Trim(text[1])) > 0

\* the arguments the hooks are called with
HookTexts ==
    {None, Some(<<>>), Some(<<" ">>), Some(<<"K">>), Some(<<"k">>),
     Some(<<"K", " ">>)}

HookListParams ==
    {Empty, OneField("name", <<"K">>), OneField("name", <<" ", "K">>),
     OneField("limit", Fin(2, 0)), OneField("limit", Fin(25, 1))}

HookTimelineParams ==
    {Empty, OneField("start_year", Fin(7, 0)), OneField("start_year", NaN)}

\* useQuery({queryKey, queryFn, enabled}) within the stale time: the first
\* read of a key runs queryFn and stores the result under the key; a later
\* read of the key is served what is stored
useQuery(hook, queryKey, queryFn, enabled) ==
    /\ pc = "hooks"
    /\ enabled
    /\ IF \E i \in 1..Len(store) :
            store[i].hook = hook /\ store[i].key = queryKey
       THEN LET i == CHOOSE j \in 1..Len(store) :
                        store[j].hook = hook /\ store[j].key = queryKey
            IN  /\ served' = Some([hook |-> hook, key |-> queryKey,
                                   request |-> queryFn,
                                   from |-> store[i].request])
                /\ UNCHANGED store
       ELSE /\ Len(store) < MaxReads
            /\ store' = Append(store, [hook |-> hook, key |-> queryKey,
                                       request |-> queryFn])
            /\ served' = Some([hook |-> hook, key |-> queryKey,
                               request |-> queryFn, from |-> queryFn])
    /\ UNCHANGED <<codecVars, cacheVars, pageVars, httpVars, dashVars>>

usePlanetList(params) ==
    useQuery("list", usePlanetList_queryKey(params),
             listPlanets_request(usePlanetList_queryFn(params)), TRUE)

usePlanetTimeline(params) ==
    useQuery("timeline",
             <<"planets", "timeline", usePlanetTimeline_cleaned(params)>>,
             fetchPlanetTimeline(usePlanetTimeline_cleaned(params)), TRUE)

usePlanetByName(name) ==
    useQuery("by-name", <<"planets", "by-name", LowerTrimmedKey(name)>>,
             fetchPlanetByName(IF name = None THEN <<>> ELSE name[1]),
             NonBlank(name))

useMethodStats(method) ==
    useQuery("method-stats",
             <<"planets", "method-stats", LowerTrimmedKey(method)>>,
             fetchMethodStats(IF method = None THEN <<>> ELSE method[1]),
             NonBlank(method))

InitHooks ==
    /\ pc = "hooks"
    /\ store = <<>>
    /\ served = None
    /\ dashboard = <<>>
    /\ wire = <<>>
    /\ filter = Empty
    /\ form = defaultFormState
    /\ search = Empty
    /\ listParams = Empty
    /\ normalised = <<>>
    /\ CacheBoot
    /\ PageBoot
    /\ HttpBoot

NextHooks ==
    \/ \E params \in HookListParams : usePlanetList(params)
    \/ \E params \in HookTimelineParams : usePlanetTimeline(params)
    \/ \E name \in HookTexts : usePlanetByName(name)
    \/ \E method \in HookTexts : useMethodStats(method)

SpecHooks == InitHooks /\ [][NextHooks]_vars

\* C28: for every read hook the request is determined by the cache key
\* alone: a read that is served the cached value of its key would have
\* issued the very request (same path and query) that produced that value.
C28_RequestDeterminedByKey ==
    served # None => served[1].from = served[1].request
=============================================================================
